---- MODULE Spec2Model ----
(***************************************************************************)
(* EcoSalvador: the dialogue flow controller (App), the chat surface's     *)
(* event wiring (ChatInterface) and the AI gateway (geminiService).        *)
(*                                                                         *)
(* Representation.  A JavaScript string is a tuple of atoms, so that       *)
(* template concatenation is \o and "" is <<>>.  Enumeration values,       *)
(* labels and image references are single atoms.  An optional value is a   *)
(* tuple of length at most one: None is undefined, Some(v) is v.           *)
(* Accented characters and emoji of the source strings are transliterated. *)
(*                                                                         *)
(* Record constructors list their fields in the order TLC keeps them (the  *)
(* order in which the names first occur in this module), so that no worker *)
(* has to reorder a record another worker is reading.                      *)
(***************************************************************************)
EXTENDS Integers, Sequences, FiniteSets, TLC

None == <<>>
Some(v) == <<v>>

\* JavaScript truthiness of an optional string atom, text and number.
TruthyAtom(o) == o # None /\ o[1] # ""
TruthyText(o) == o # None /\ o[1] # <<>>
TruthyNum(o) == o # None /\ o[1] # 0

(***************************** bounds **************************************)
\* User events (text, quick reply, location choice, map, navigation) per run.
MaxUserEvents == 4
\* User events of a run that do not follow the protocol: an event while a
\* handler, timer or request is in flight, a press of a button of an earlier
\* prompt, a text where the step expects none.
MaxStray == 1
\* Handlers, timers and requests in flight at the same time.
MaxPending == 2
\* How many of a prompt's options (in display order) the user picks among.
MaxOption == 2

(************************** types.ts enumerations **************************)
STRUCTURE == "Rachaduras e Estruturas"
FLOODING == "Alagamentos e Enchentes"
LANDSLIDE == "Deslizamentos e Encostas"
INFRASTRUCTURE == "Riscos em Infraestrutura"
INDOOR == "Dentro de Casa"
EXTREME == "Sinais Climaticos Extremos"
\* ReportCategory.OTHER (OTHER is a TLA+ keyword).
OTHER_CATEGORY == "Outro"

ReportCategory == {STRUCTURE, FLOODING, LANDSLIDE, INFRASTRUCTURE, INDOOR, EXTREME, OTHER_CATEGORY}

BOT == "bot"
USER == "user"

Opt(label, value) == [label |-> label, value |-> value]

MAIN_CATEGORIES ==
  << Opt("(house) Rachaduras e Estruturas", STRUCTURE),
     Opt("(rain) Alagamentos e Enchentes", FLOODING),
     Opt("(volcano) Deslizamentos e Encostas", LANDSLIDE),
     Opt("(road) Infraestrutura Urbana", INFRASTRUCTURE),
     Opt("(home) Dentro de Casa", INDOOR),
     Opt("(tornado) Sinais Extremos", EXTREME) >>

\* SUB_CATEGORIES[value], or <<>> where the source's lookup yields undefined.
SUB_CATEGORIES(value) ==
  CASE value = STRUCTURE ->
         << Opt("Rachaduras em parede", "Rachaduras em parede"),
            Opt("Rachaduras no chao", "Rachaduras no chao ou solo"),
            Opt("Muro inclinando", "Muro inclinando"),
            Opt("Poste torto", "Poste torto ou prestes a cair"),
            Opt("Portas/janelas travando", "Portas e janelas travando") >>
    [] value = FLOODING ->
         << Opt("Bueiro entupido", "Bueiro entupido"),
            Opt("Agua acumulada na rua", "Agua acumulada na rua"),
            Opt("Alagamento em casa", "Alagamento dentro de casa"),
            Opt("Ralo retornando", "Ralo retornando agua"),
            Opt("Esgoto transbordando", "Esgoto transbordando") >>
    [] value = LANDSLIDE ->
         << Opt("Terra deslizando", "Terra deslizando"),
            Opt("Poeira saindo do barranco", "Poeira saindo do barranco"),
            Opt("Fenda no solo", "Fenda no solo"),
            Opt("Arvore inclinando", "Arvore inclinando em encosta"),
            Opt("Barulho de terra", "Barulho de terra rompendo") >>
    [] value = INFRASTRUCTURE ->
         << Opt("Buraco grande na rua", "Buraco grande na rua"),
            Opt("Cratera se formando", "Cratera se formando"),
            Opt("Ponte com rachaduras", "Ponte com rachaduras"),
            Opt("Calcada cedendo", "Calcada cedendo"),
            Opt("Erosao perto de casas", "Erosao perto de casas") >>
    [] value = INDOOR ->
         << Opt("Infiltracao na parede", "Infiltracao na parede"),
            Opt("Mofo repentino", "Mofo repentino"),
            Opt("Vazamento no teto", "Vazamento no teto"),
            Opt("Piso estufando", "Piso estufando"),
            Opt("Azulejos soltando", "Azulejos soltando") >>
    [] value = EXTREME ->
         << Opt("Chuva muito forte", "Chuva muito forte"),
            Opt("Vento forte/Destruicao", "Vento forte derrubando objetos"),
            Opt("Rio subindo", "Rio subindo rapidamente"),
            Opt("Cheiro forte bueiro", "Cheiro forte vindo dos bueiros"),
            Opt("Agua barrenta", "Agua barrenta surgindo") >>
    [] OTHER -> <<>>

POST_OPTIONS ==
  << Opt("Nova denuncia", "NEW_REPORT"), Opt("Ver Mapa de Risco", "VIEW_MAP") >>

GREETING == "GREETING"
CATEGORY_SELECTION == "CATEGORY_SELECTION"
SUBCATEGORY_SELECTION == "SUBCATEGORY_SELECTION"
DESCRIPTION == "DESCRIPTION"
LOCATION_METHOD_SELECTION == "LOCATION_METHOD_SELECTION"
LOCATION_INPUT_TEXT == "LOCATION_INPUT_TEXT"
LOCATION_INPUT_MAP == "LOCATION_INPUT_MAP"
COMPLETED == "COMPLETED"

FlowStep ==
  { GREETING, CATEGORY_SELECTION, SUBCATEGORY_SELECTION, DESCRIPTION,
    LOCATION_METHOD_SELECTION, LOCATION_INPUT_TEXT, LOCATION_INPUT_MAP, COMPLETED }

\* Coordinates in 1e-4 degrees; an absent lat or lng is None.
Coord(lat, lng) == [lat |-> Some(lat), lng |-> Some(lng)]
(*********************** geminiService: the AI gateway **********************)
\* What ai.models.generateContent settles to: a rejection (network failure,
\* API error) or a response whose .text is undefined or a string.  A response
\* body is its raw text together with what JSON.parse makes of it: isJson says
\* whether the text is valid JSON, value is the parsed value.
JNull == [null |-> TRUE, obj |-> <<>>]
JObj(o) == [null |-> FALSE, obj |-> o]

PlainBody(raw) == [value |-> JNull, raw |-> raw, isJson |-> FALSE]
JsonBody(v) == [value |-> v, raw |-> <<"{json}">>, isJson |-> TRUE]

Rejected == [rejected |-> TRUE, text |-> None]
Resolved(text) == [rejected |-> FALSE, text |-> text]

\* !response.text : undefined or the empty string.
NoText(t) == t.text = None \/ t.text[1].raw = <<>>

\* How a try block or an async function ends: with a value or with a throw
\* of an error.
Return(v) == [value |-> v, threw |-> FALSE]
Throw(error) == [value |-> error, threw |-> TRUE]

\* JSON.parse: throws on text that is not JSON, else yields the parsed value.
JSONparse(body) ==
  IF body.isJson THEN Return(body.value) ELSE Throw("SyntaxError")

AnalyzeFallbackText ==
  <<"Entendido. Por favor, compartilhe a localizacao para que possamos registrar a ocorrencia.">>

AnalyzeFallbackMutant ==
  JObj([text |-> Some(AnalyzeFallbackText), severity |-> Some(1)])

\* The catch block's value of analyzeReportDescription.
AnalyzeFallback ==
  JObj([text |-> Some(AnalyzeFallbackText), severity |-> Some(3)])

\* The try block shared by analyzeReportDescription and
\* extractLocationFromText: await the response, throw on no text, JSON.parse.
ParsedResponse(t) ==
  IF t.rejected THEN Throw("rejected")
  ELSE IF NoText(t) THEN Throw("No response from AI")
  ELSE JSONparse(t.text[1])

\* analyzeReportDescription, given what the transport settles to.  The prompt
\* is built from both arguments; the result depends on the transport alone.
analyzeReportDescription(description, selectedCategory, t) ==
  IF ParsedResponse(t).threw THEN Return(AnalyzeFallback) ELSE ParsedResponse(t)

LocationFallbackCoordinates == [lat |-> Some(0 - 129777), lng |-> Some(0 - 385016)]

LocationFallbackText ==
  <<"Nao consegui identificar o local exato pelo texto. Usarei o centro da cidade como referencia.">>

\* A catch block that answers with another place.
LocationFallbackElsewhere ==
  JObj([ neighborhood |-> Some("Salvador (Centro)"),
         coordinates |-> Some([lat |-> Some(0), lng |-> Some(0)]),
         confirmationText |-> Some(LocationFallbackText) ])

\* The catch block's value of extractLocationFromText.
LocationFallback ==
  JObj([ neighborhood |-> Some("Salvador (Centro)"),
         coordinates |-> Some(LocationFallbackCoordinates),
         confirmationText |-> Some(LocationFallbackText) ])

extractLocationFromText(text, t) ==
  IF ParsedResponse(t).threw THEN Return(LocationFallback) ELSE ParsedResponse(t)

CannedGreeting ==
  <<"Ola! Sou o EcoSalvador, seu assistente virtual inteligente. Como posso ajudar voce hoje?">>

\* generateInitialGreeting: response.text || canned, and canned on rejection.
generateInitialGreeting(t) ==
  IF t.rejected THEN Return(CannedGreeting)
  ELSE IF NoText(t) THEN Return(CannedGreeting)
  ELSE Return(t.text[1].raw)

WhiteSpace == {" ", "\n"}

\* String.prototype.trim on a tuple of atoms.
RECURSIVE TrimLeft(_)
TrimLeft(s) ==
  IF s # <<>> /\ Head(s) \in WhiteSpace THEN TrimLeft(Tail(s)) ELSE s

RECURSIVE TrimRight(_)
TrimRight(s) ==
  IF s # <<>> /\ s[Len(s)] \in WhiteSpace THEN TrimRight(SubSeq(s, 1, Len(s) - 1)) ELSE s

Trim(s) == TrimRight(TrimLeft(s))

\* inferCategoryFromText without the validation against the enumeration.
inferCategoryUnvalidated(text, t) ==
  IF t.rejected \/ NoText(t) \/ Trim(t.text[1].raw) = <<>> THEN Return(None)
  ELSE Return(Some(Trim(t.text[1].raw)[1]))

\* inferCategoryFromText: Some(category) or None (null).
inferCategoryFromText(text, t) ==
  IF t.rejected THEN Return(None)
  ELSE LET result == IF t.text = None THEN None ELSE Some(Trim(t.text[1].raw))
       IN IF TruthyText(result) /\ Len(result[1]) = 1 /\ result[1][1] \in ReportCategory
          THEN Return(Some(result[1][1]))
          ELSE Return(None)

(******************* what the transport may settle to ***********************)
AnalysisOk == JObj([text |-> Some(<<"analise">>), severity |-> Some(4)])
AnalysisOutOfRange == JObj([text |-> Some(<<"analise">>), severity |-> Some(7)])
AnalysisZero == JObj([text |-> Some(<<"analise">>), severity |-> Some(0)])
AnalysisNoSeverity == JObj([text |-> Some(<<"analise">>), severity |-> None])
AnalysisNoText == JObj([text |-> None, severity |-> Some(2)])

FailingBodies ==
  { Resolved(None), Resolved(Some(PlainBody(<<>>))), Resolved(Some(PlainBody(<<"not json">>))) }

AnalyzeTransports ==
  {Rejected} \cup FailingBodies \cup
  { Resolved(Some(JsonBody(v))) :
      v \in {JNull, AnalysisOk, AnalysisOutOfRange, AnalysisZero, AnalysisNoSeverity, AnalysisNoText} }

AiCoordinates == Coord(0 - 130100, 0 - 385300)

LocationOk ==
  JObj([ neighborhood |-> Some("Barra"), coordinates |-> Some(AiCoordinates),
         confirmationText |-> Some(<<"Entendi, bairro Barra.">>) ])
LocationNoCoordinates ==
  JObj([ neighborhood |-> Some("Barra"), coordinates |-> None,
         confirmationText |-> Some(<<"Entendi, bairro Barra.">>) ])
LocationEmptyCoordinates ==
  JObj([ neighborhood |-> Some("Barra"), coordinates |-> Some([lat |-> None, lng |-> None]),
         confirmationText |-> Some(<<"Entendi, bairro Barra.">>) ])
LocationNoNeighborhood ==
  JObj([ neighborhood |-> None, coordinates |-> Some(AiCoordinates),
         confirmationText |-> None ])

LocationTransports ==
  {Rejected} \cup FailingBodies \cup
  { Resolved(Some(JsonBody(v))) :
      v \in {JNull, LocationOk, LocationNoCoordinates, LocationEmptyCoordinates,
             LocationNoNeighborhood} }

GreetingTransports ==
  { Rejected, Resolved(None), Resolved(Some(PlainBody(<<>>))),
    Resolved(Some(PlainBody(<<"Ola, sou o EcoSalvador.">>))) }

InferTransports ==
  { Rejected, Resolved(None), Resolved(Some(PlainBody(<<>>))),
    Resolved(Some(PlainBody(<<"null">>))),
    Resolved(Some(PlainBody(<<"nao sei">>))),
    Resolved(Some(PlainBody(<<STRUCTURE>>))),
    Resolved(Some(PlainBody(<<" ", FLOODING, "\n">>))),
    Resolved(Some(PlainBody(<<OTHER_CATEGORY>>))),
    Resolved(Some(PlainBody(<<"Categoria: ", STRUCTURE>>))) }
(****************************** Dashboard ***********************************)
\* const hood = r.neighborhood || "Desconhecido".
hood(r) == IF TruthyAtom(r.neighborhood) THEN r.neighborhood[1] ELSE "Desconhecido"

\* The keys of `stats` in the order Object.entries lists them: the order in
\* which reports.forEach first met them (labels are names, not array indices).
statsKeys(rs) ==
  LET first == {j \in 1..Len(rs) : \A i \in 1..(j - 1) : hood(rs[i]) # hood(rs[j])}
  IN [k \in 1..Cardinality(first) |->
        hood(rs[CHOOSE j \in first : Cardinality({i \in first : i <= j}) = k])]

\* stats[hood].sumSeverity once reports.forEach has visited the first n reports.
RECURSIVE sumSeverity(_, _, _)
sumSeverity(rs, h, n) ==
  IF n = 0 THEN 0
  ELSE sumSeverity(rs, h, n - 1) + (IF hood(rs[n]) = h THEN rs[n].severity ELSE 0)

\* stats[hood] once reports.forEach is done.
stats(rs, h) ==
  LET n == Cardinality({i \in 1..Len(rs) : hood(rs[i]) = h})
  IN [sumSeverity |-> sumSeverity(rs, h, Len(rs)), total |-> n, count |-> n]

\* toFixed(1) cutting the digits off instead of rounding.
toFixed1Truncated(sum, count) == (10 * sum) \div count

\* (sum / count).toFixed(1), in tenths: the nearest tenth, the larger one when
\* two are equally near.  Exact for the quotients of the bounded collections,
\* whose halves and quarters are binary fractions.
toFixed1(sum, count) == (20 * sum + count) \div (2 * count)

\* Array.prototype.sort with (a, b) => parseFloat(b.riskScore) -
\* parseFloat(a.riskScore): descending, and stable.  A row comes after the
\* rows of higher score and after the earlier rows of its own score.
sortByRiskScore(rows) ==
  LET place(i) ==
        1 + Cardinality({j \in 1..Len(rows) : rows[j].riskScore > rows[i].riskScore})
          + Cardinality({j \in 1..(i - 1) : rows[j].riskScore = rows[i].riskScore})
  IN [k \in 1..Len(rows) |-> rows[CHOOSE i \in 1..Len(rows) : place(i) = k]]

\* 1. Risk by Neighborhood.
neighborhoodRisks(rs) ==
  LET ks == statsKeys(rs)
  IN sortByRiskScore(
       [i \in 1..Len(ks) |->
          LET data == stats(rs, ks[i])
          IN [ riskScore |-> toFixed1(data.sumSeverity, data.count),
               name |-> ks[i],
               totalReports |-> data.total ]])

\* The reports array had the Dashboard sorted it in place, by rising severity.
RECURSIVE DashboardPropsSorted(_)
DashboardPropsSorted(rs) ==
  IF rs = <<>> THEN <<>>
  ELSE LET sorted == DashboardPropsSorted(SubSeq(rs, 1, Len(rs) - 1))
           r == rs[Len(rs)]
           k == Cardinality({i \in 1..Len(sorted) : sorted[i].severity <= r.severity})
       IN SubSeq(sorted, 1, k) \o <<r>> \o SubSeq(sorted, k + 1, Len(sorted))

\* The reports array after a render of the Dashboard: the derivations read it
\* with forEach, filter and reduce, and sort only the arrays they build.
DashboardProps(rs) == rs

\* name.split(' ')[1] || name.substring(0, 10): the second word of a category
\* of the enumeration, 'Outro' having none.  A category outside the
\* enumeration keeps its text here; nothing reads the axis label.
shortName(name) ==
  CASE name \in {STRUCTURE, FLOODING, LANDSLIDE} -> "e"
    [] name = INFRASTRUCTURE -> "em"
    [] name = INDOOR -> "de"
    [] name = EXTREME -> "Climaticos"
    [] OTHER -> name

\* categoryData without the final sort: the categories in the order of their
\* first report.
categoryDataUnsorted(rs) ==
  LET first == {j \in 1..Len(rs) : \A i \in 1..(j - 1) : rs[i].category # rs[j].category}
      keys == [k \in 1..Cardinality(first) |->
                 rs[CHOOSE j \in first : Cardinality({i \in first : i <= j}) = k].category]
  IN [k \in 1..Len(keys) |->
        [ value |-> Cardinality({i \in 1..Len(rs) : rs[i].category = keys[k]}),
          name |-> shortName(keys[k]),
          fullName |-> keys[k] ]]

\* 2. Reports by Category: counts per category in the order of their first
\* report, then .sort((a, b) => b.value - a.value), which is stable.
categoryData(rs) ==
  LET first == {j \in 1..Len(rs) : \A i \in 1..(j - 1) : rs[i].category # rs[j].category}
      keys == [k \in 1..Cardinality(first) |->
                 rs[CHOOSE j \in first : Cardinality({i \in first : i <= j}) = k].category]
      rows == [k \in 1..Len(keys) |->
                 [ value |-> Cardinality({i \in 1..Len(rs) : rs[i].category = keys[k]}),
                   name |-> shortName(keys[k]),
                   fullName |-> keys[k] ]]
      place(i) ==
        1 + Cardinality({j \in 1..Len(rows) : rows[j].value > rows[i].value})
          + Cardinality({j \in 1..(i - 1) : rows[j].value = rows[i].value})
  IN [k \in 1..Len(rows) |-> rows[CHOOSE i \in 1..Len(rows) : place(i) = k]]

\* severityData keeping the buckets that count nothing.
severityDataUnfiltered(rs) ==
  LET high == Cardinality({i \in 1..Len(rs) : rs[i].severity >= 4})
      medium == Cardinality({i \in 1..Len(rs) : rs[i].severity = 3})
  IN << [value |-> Len(rs) - high - medium, name |-> "Baixo (1-2)", color |-> "primary"],
        [value |-> medium, name |-> "Medio (3)", color |-> "warning"],
        [value |-> high, name |-> "Critico (4-5)", color |-> "danger"] >>

\* 3. Severity Distribution: high from 4 up, medium at 3, low otherwise; the
\* buckets that count nothing are filtered out.
severityData(rs) ==
  LET high == Cardinality({i \in 1..Len(rs) : rs[i].severity >= 4})
      medium == Cardinality({i \in 1..Len(rs) : ~(rs[i].severity >= 4) /\ rs[i].severity = 3})
      low == Len(rs) - high - medium
      positive(d) == d.value > 0
  IN SelectSeq(<< [value |-> low, name |-> "Baixo (1-2)", color |-> "primary"],
                  [value |-> medium, name |-> "Medio (3)", color |-> "warning"],
                  [value |-> high, name |-> "Critico (4-5)", color |-> "danger"] >>,
               positive)

\* 4. KPIs.
totalReports(rs) == Len(rs)

\* criticalReports counting only the Reports above 4.
criticalReportsAbove(rs) == Cardinality({i \in 1..Len(rs) : rs[i].severity > 4})

criticalReports(rs) == Cardinality({i \in 1..Len(rs) : rs[i].severity >= 4})

\* reports.reduce((acc, r) => acc + r.severity, 0) over the first n reports.
RECURSIVE reduceSeverity(_, _)
reduceSeverity(rs, n) ==
  IF n = 0 THEN 0 ELSE reduceSeverity(rs, n - 1) + rs[n].severity

\* The average in tenths; "0.0" for no reports.
avgSeverity(rs) ==
  IF totalReports(rs) > 0 THEN toFixed1(reduceSeverity(rs, Len(rs)), totalReports(rs)) ELSE 0

\* What a render of the Dashboard derives from its reports.
Dashboard(rs) ==
  [ neighborhoodRisks |-> neighborhoodRisks(rs),
    totalReports |-> totalReports(rs),
    categoryData |-> categoryData(rs),
    severityData |-> severityData(rs),
    criticalReports |-> criticalReports(rs),
    avgSeverity |-> avgSeverity(rs) ]
(************************* App: the controller state ************************)
VARIABLES
  view,                \* 'chat' | 'dashboard'
  messages,            \* the transcript
  reports,             \* the report collection
  currentStep,         \* FlowStep
  tempReportData,      \* the draft, Partial<Report>
  isTyping,
  waitingForLocation,
  showMapPicker,
  pending,             \* continuations in flight: timers, AI calls, GPS requests,
                       \* each with the values its closure captured
  now,                 \* Date.now(), as the handlers observe it: the number of
                       \* earlier handler runs that read the clock
  events,              \* user events handled so far
  strays,              \* those among them that did not follow the protocol
  audit,               \* per report, in order: the flow it was appended in and
                       \* the event and coordinate that finalized it
  flow,                \* 'new report' actions handled so far
  lastAi,              \* the last gateway call made on its own: arguments,
                       \* transport outcome and result
  cfg,                 \* the run's frame, fixed at the start.  trace = TRUE: the
                       \* transcript, the clock and the event count are
                       \* recorded in full, and the user handles at most
                       \* maxEvents events, maxStray of them off the protocol;
                       \* trace = FALSE: only the latest prompt and the latest
                       \* message are retained, the events and the flows are
                       \* not counted, and the reports of earlier flows and
                       \* the Dashboard's tables are not retained
  dash                 \* what the Dashboard derives from the reports it is given

vars ==
  << view, messages, reports, currentStep, tempReportData, isTyping,
     waitingForLocation, showMapPicker, pending, now, events, strays, audit,
     flow, lastAi, cfg, dash >>

\* useState<Partial<Report>>({}) and setTempReportData({}).
EmptyDraft ==
  [ severity |-> None, description |-> None, category |-> None,
    subcategory |-> None, aiAnalysis |-> None, imageUrl |-> None ]

Task(k, arg, draft) == [k |-> k, arg |-> arg, draft |-> draft]

RemoveAt(s, i) == SubSeq(s, 1, i - 1) \o SubSeq(s, i + 1, Len(s))

\* The Message object addMessage builds; the id is the clock's value.  The text
\* is optional, since a caller may pass a field an AI response lacks.
Message(text, sender, isQuickReply, options, isLocationRequest, image) ==
  [ text |-> text, sender |-> sender, isQuickReply |-> isQuickReply, options |-> options,
    isLocationRequest |-> isLocationRequest, image |-> image, id |-> now ]

Plain(text, sender) == Message(Some(text), sender, FALSE, <<>>, FALSE, None)
QuickPrompt(text, options) == Message(Some(text), BOT, TRUE, options, FALSE, None)
LocationPrompt(text) == Message(Some(text), BOT, FALSE, <<>>, TRUE, None)

HasButtons(m) == (m.isQuickReply /\ m.options # <<>>) \/ m.isLocationRequest

RECURSIVE LastPrompt(_)
LastPrompt(ms) ==
  IF ms = <<>> THEN <<>>
  ELSE IF HasButtons(ms[Len(ms)]) THEN <<ms[Len(ms)]>>
  ELSE LastPrompt(SubSeq(ms, 1, Len(ms) - 1))

\* addMessage putting the new message first.
addMessagePrepended(ms, m) == <<m>> \o ms

\* setMessages(prev => [...prev, newMessage]).
addMessage(ms, m) ==
  IF cfg.trace THEN Append(ms, m)
  ELSE IF HasButtons(m) THEN <<m>> ELSE LastPrompt(ms) \o <<m>>

Tick == IF cfg.trace THEN now + 1 ELSE now
Count == IF cfg.trace THEN events + 1 ELSE events

InitWith(c) ==
  /\ view = "chat"
  /\ messages = <<>>
  /\ reports = <<>>
  /\ currentStep = GREETING
  /\ tempReportData = EmptyDraft
  /\ isTyping = TRUE
  /\ waitingForLocation = FALSE
  /\ showMapPicker = FALSE
  /\ pending = << Task("greet", <<>>, EmptyDraft) >>
  /\ now = 0
  /\ events = 0
  /\ strays = 0
  /\ audit = <<>>
  /\ flow = 0
  /\ lastAi = [op |-> "none"]
  /\ cfg = c
  /\ dash = Dashboard(<<>>)

\* The state once the mount effect has called processBotResponse: the typing
\* flag is set and the handler is suspended on its first delay.
Init ==
  InitWith([trace |-> TRUE, maxEvents |-> MaxUserEvents, maxStray |-> MaxStray])

Ghost == UNCHANGED << lastAi, cfg >>

\* setReports with a Dashboard that keeps counting from its previous total.
setReportsAccumulating(rs) ==
  /\ reports' = DashboardProps(rs)
  /\ dash' = [Dashboard(rs) EXCEPT !.totalReports = dash.totalReports + Len(rs)]

\* setReports(prev => [...prev, newReport]) and the render that follows: the
\* Dashboard is given the new array and derives its tables from it (the
\* tables are kept with the full trace only).
setReports(rs) ==
  /\ reports' = DashboardProps(rs)
  /\ dash' = IF cfg.trace THEN Dashboard(rs) ELSE dash

\* A user gesture on the chat surface is possible.
ChatVisible == view = "chat"
CanSpawn == Len(pending) < MaxPending

\* The user follows the protocol when answering the latest prompt, in the step
\* that expects the answer, while nothing is in flight.
Idle == pending = <<>>
LatestPrompt == LastPrompt(messages)

\* A user event is handled.  Events off the protocol are counted and bounded;
\* with the full trace so are the events altogether.
UserEvent(valid) ==
  /\ cfg.trace => events < cfg.maxEvents
  /\ valid \/ strays < cfg.maxStray
  /\ events' = Count
  /\ strays' = IF valid THEN strays ELSE strays + 1

Internal == UNCHANGED << events, strays >>
(***************************** App: handlers ********************************)
\* The assignments shared by every step of the controller.
Upd(ms, st, dr, ty, pd) ==
  /\ messages' = ms
  /\ currentStep' = st
  /\ tempReportData' = dr
  /\ isTyping' = ty
  /\ pending' = pd
  /\ now' = IF ms # messages THEN Tick ELSE now
  /\ Ghost

\* The Report object finalizeReport builds from the draft its closure holds.
finalizeReport(d, coords, neighborhood) ==
  [ severity |-> IF TruthyNum(d.severity) THEN d.severity[1] ELSE 1,
    description |->
      IF TruthyText(d.description) THEN d.description[1]
      ELSE IF TruthyAtom(d.subcategory) THEN <<d.subcategory[1]>>
      ELSE <<"Sem descricao detalhada">>,
    neighborhood |-> neighborhood,
    category |-> IF TruthyAtom(d.category) THEN d.category[1] ELSE OTHER_CATEGORY,
    subcategory |-> d.subcategory,
    aiAnalysis |-> IF TruthyText(d.aiAnalysis) THEN d.aiAnalysis[1] ELSE <<"Sem analise">>,
    imageUrl |-> d.imageUrl,
    id |-> now,
    location |-> coords,
    status |-> "pending" ]

\* setReports(prev => [...prev, newReport]), with the record of who finalized.
Finalized(d, coords, neighborhood, source, delivered) ==
  /\ setReports(Append(reports, finalizeReport(d, coords, neighborhood)))
  /\ audit' = Append(audit, [flow |-> flow, source |-> source, delivered |-> delivered])

NotFinalized == UNCHANGED << reports, audit, dash >>

\* What the user can submit: handleSubmit requires text or an image.
UserInputs ==
  { [text |-> <<"ok">>, image |-> None], [text |-> <<>>, image |-> Some("img")] }

\* The description without the sub-category in front.
FullDescriptionBare(d, text) == text

\* `[${subcategory}] - ${text}` when the draft has a sub-category.
FullDescription(d, text) ==
  IF TruthyAtom(d.subcategory) THEN <<"[", d.subcategory[1], "] - ">> \o text ELSE text

\* processBotResponse after its delay and generateInitialGreeting: the
\* greeting is appended and the category prompt is scheduled.
GreetingReply(T) ==
  \E i \in 1..Len(pending), t \in T :
    /\ pending[i].k = "greet"
    /\ Upd(addMessage(messages, Plain(generateInitialGreeting(t).value, BOT)),
           currentStep, tempReportData, FALSE,
           Append(RemoveAt(pending, i), Task("greetT", <<>>, EmptyDraft)))
    /\ NotFinalized
    /\ Internal
    /\ UNCHANGED << view, waitingForLocation, showMapPicker, flow >>

\* That timer appending its text without the category buttons.
GreetingPromptPlain ==
  \E i \in 1..Len(pending) :
    /\ pending[i].k = "greetT"
    /\ Upd(addMessage(messages,
             Plain(<<"Selecione a categoria que melhor descreve o que voce esta observando:">>, BOT)),
           CATEGORY_SELECTION, tempReportData, isTyping, RemoveAt(pending, i))
    /\ NotFinalized
    /\ Internal
    /\ UNCHANGED << view, waitingForLocation, showMapPicker, flow >>

\* The timer processBotResponse sets after the greeting.
GreetingPrompt ==
  \E i \in 1..Len(pending) :
    /\ pending[i].k = "greetT"
    /\ Upd(addMessage(messages,
             QuickPrompt(<<"Selecione a categoria que melhor descreve o que voce esta observando:">>,
                         MAIN_CATEGORIES)),
           CATEGORY_SELECTION, tempReportData, isTyping, RemoveAt(pending, i))
    /\ NotFinalized
    /\ Internal
    /\ UNCHANGED << view, waitingForLocation, showMapPicker, flow >>

ValidText ==
  /\ Idle
  /\ currentStep \in {CATEGORY_SELECTION, SUBCATEGORY_SELECTION, DESCRIPTION, LOCATION_INPUT_TEXT}

\* handleUserMessage up to its first await (or to its end).  The closure
\* holds the step and the draft of the render the handler was created in.
handleUserMessage(inp) ==
  LET d0 == tempReportData
      d1 == IF TruthyAtom(inp.image) THEN [d0 EXCEPT !.imageUrl = inp.image] ELSE d0
      ms == addMessage(messages, Message(Some(inp.text), USER, FALSE, <<>>, FALSE, inp.image))
  IN
  /\ ChatVisible /\ ~showMapPicker
  /\ UserEvent(ValidText)
  /\ \/ /\ currentStep \in {CATEGORY_SELECTION, SUBCATEGORY_SELECTION}
        /\ CanSpawn
        /\ Upd(ms, currentStep, d1, TRUE, Append(pending, Task("infer", inp.text, d0)))
     \/ /\ currentStep = DESCRIPTION
        /\ CanSpawn
        /\ Upd(ms, currentStep, d1, TRUE,
               Append(pending,
                      Task("analyzeDesc",
                           [description |-> FullDescription(d0, inp.text),
                            category |-> d0.category], d0)))
     \/ /\ currentStep = LOCATION_INPUT_TEXT
        /\ CanSpawn
        /\ Upd(ms, currentStep, d1, TRUE, Append(pending, Task("extract", inp.text, d0)))
     \/ /\ currentStep \in {GREETING, LOCATION_METHOD_SELECTION, LOCATION_INPUT_MAP, COMPLETED}
        /\ Upd(ms, currentStep, d1, isTyping, pending)
  /\ NotFinalized
  /\ UNCHANGED << view, waitingForLocation, showMapPicker, flow >>

SendText == \E inp \in UserInputs : handleUserMessage(inp)

\* That continuation emptying the draft when nothing was inferred.
InferReplyClearsDraft(T) ==
  \E i \in 1..Len(pending), t \in T :
    LET text == pending[i].arg
        inferredCategory == inferCategoryFromText(text, t).value
    IN
    /\ pending[i].k = "infer"
    /\ IF TruthyAtom(inferredCategory)
       THEN Upd(addMessage(messages,
                  Plain(<<"Entendido. Identifiquei que se trata de: ", inferredCategory[1], ".">>, BOT)),
                currentStep,
                [EmptyDraft EXCEPT !.category = inferredCategory, !.description = Some(text)],
                isTyping,
                Append(RemoveAt(pending, i),
                       Task("analyzeSkip",
                            [description |-> text, category |-> inferredCategory], EmptyDraft)))
       ELSE Upd(addMessage(messages,
                  QuickPrompt(<<"Nao consegui identificar a categoria automaticamente. Por favor, selecione uma das opcoes.">>,
                              MAIN_CATEGORIES)),
                CATEGORY_SELECTION, EmptyDraft, FALSE, RemoveAt(pending, i))
    /\ NotFinalized
    /\ Internal
    /\ UNCHANGED << view, waitingForLocation, showMapPicker, flow >>

\* handleUserMessage after `await inferCategoryFromText(text)`.
InferReply(T) ==
  \E i \in 1..Len(pending), t \in T :
    LET text == pending[i].arg
        inferredCategory == inferCategoryFromText(text, t).value
    IN
    /\ pending[i].k = "infer"
    /\ IF TruthyAtom(inferredCategory)
       THEN Upd(addMessage(messages,
                  Plain(<<"Entendido. Identifiquei que se trata de: ", inferredCategory[1], ".">>, BOT)),
                currentStep,
                [EmptyDraft EXCEPT !.category = inferredCategory, !.description = Some(text)],
                isTyping,
                Append(RemoveAt(pending, i),
                       Task("analyzeSkip",
                            [description |-> text, category |-> inferredCategory], EmptyDraft)))
       ELSE Upd(addMessage(messages,
                  QuickPrompt(<<"Nao consegui identificar a categoria automaticamente. Por favor, selecione uma das opcoes.">>,
                              MAIN_CATEGORIES)),
                CATEGORY_SELECTION, tempReportData, FALSE, RemoveAt(pending, i))
    /\ NotFinalized
    /\ Internal
    /\ UNCHANGED << view, waitingForLocation, showMapPicker, flow >>

\* handleUserMessage after `await analyzeReportDescription(text, inferredCategory)`.
AnalyzeSkipReply(T) ==
  \E i \in 1..Len(pending), t \in T :
    LET analysis ==
          analyzeReportDescription(pending[i].arg.description, pending[i].arg.category, t).value.obj
    IN
    /\ pending[i].k = "analyzeSkip"
    /\ Upd(messages, currentStep,
           [tempReportData EXCEPT !.severity = analysis.severity, !.aiAnalysis = analysis.text],
           FALSE,
           Append(RemoveAt(pending, i), Task("skipT1", analysis.text, EmptyDraft)))
    /\ NotFinalized
    /\ Internal
    /\ UNCHANGED << view, waitingForLocation, showMapPicker, flow >>

\* The first nested timer of the skip-ahead branch: the analysis text.
SkipAnalysisMessage ==
  \E i \in 1..Len(pending) :
    /\ pending[i].k = "skipT1"
    /\ Upd(addMessage(messages, Message(pending[i].arg, BOT, FALSE, <<>>, FALSE, None)),
           currentStep, tempReportData, isTyping,
           Append(RemoveAt(pending, i), Task("skipT2", <<>>, EmptyDraft)))
    /\ NotFinalized
    /\ Internal
    /\ UNCHANGED << view, waitingForLocation, showMapPicker, flow >>

\* The second nested timer of the skip-ahead branch: the location prompt.
SkipLocationPrompt ==
  \E i \in 1..Len(pending) :
    /\ pending[i].k = "skipT2"
    /\ Upd(addMessage(messages,
             LocationPrompt(<<"Para finalizar, como prefere informar a localizacao exata?">>)),
           LOCATION_METHOD_SELECTION, tempReportData, isTyping, RemoveAt(pending, i))
    /\ NotFinalized
    /\ Internal
    /\ UNCHANGED << view, waitingForLocation, showMapPicker, flow >>

\* handleUserMessage (DESCRIPTION) after `await analyzeReportDescription(...)`.
AnalyzeDescReply(T) ==
  \E i \in 1..Len(pending), t \in T :
    LET fullDescription == pending[i].arg.description
        analysis ==
          analyzeReportDescription(fullDescription, pending[i].arg.category, t).value.obj
    IN
    /\ pending[i].k = "analyzeDesc"
    /\ Upd(addMessage(messages, Message(analysis.text, BOT, FALSE, <<>>, FALSE, None)),
           currentStep,
           [tempReportData EXCEPT !.description = Some(fullDescription),
                                  !.severity = analysis.severity,
                                  !.aiAnalysis = analysis.text],
           FALSE,
           Append(RemoveAt(pending, i), Task("descT", <<>>, EmptyDraft)))
    /\ NotFinalized
    /\ Internal
    /\ UNCHANGED << view, waitingForLocation, showMapPicker, flow >>

\* That timer without its setCurrentStep.
DescLocationPromptNoStep ==
  \E i \in 1..Len(pending) :
    /\ pending[i].k = "descT"
    /\ Upd(addMessage(messages,
             LocationPrompt(<<"Como voce prefere informar a localizacao da ocorrencia?">>)),
           currentStep, tempReportData, isTyping, RemoveAt(pending, i))
    /\ NotFinalized
    /\ Internal
    /\ UNCHANGED << view, waitingForLocation, showMapPicker, flow >>

\* The timer of the DESCRIPTION branch: the location prompt.
DescLocationPrompt ==
  \E i \in 1..Len(pending) :
    /\ pending[i].k = "descT"
    /\ Upd(addMessage(messages,
             LocationPrompt(<<"Como voce prefere informar a localizacao da ocorrencia?">>)),
           LOCATION_METHOD_SELECTION, tempReportData, isTyping, RemoveAt(pending, i))
    /\ NotFinalized
    /\ Internal
    /\ UNCHANGED << view, waitingForLocation, showMapPicker, flow >>
\* finalizeReport's effect besides the Report: the typing flag and the timer
\* that appends the confirmation.
FinalTimer(pd) == Append(pd, Task("finalT", <<>>, EmptyDraft))

\* handleUserMessage (LOCATION_INPUT_TEXT) after `await extractLocationFromText`.
\* Reading a field of null or of undefined throws: the handler ends there.
ExtractReply(T) ==
  \E i \in 1..Len(pending), t \in T :
    LET locationData == extractLocationFromText(pending[i].arg, t).value
        ld == locationData.obj
        ms == addMessage(messages, Message(ld.confirmationText, BOT, FALSE, <<>>, FALSE, None))
    IN
    /\ pending[i].k = "extract"
    /\ IF locationData.null
       THEN /\ Upd(messages, currentStep, tempReportData, isTyping, RemoveAt(pending, i))
            /\ NotFinalized
       ELSE IF ld.coordinates = None
       THEN /\ Upd(ms, currentStep, tempReportData, isTyping, RemoveAt(pending, i))
            /\ NotFinalized
       ELSE /\ Upd(ms, currentStep, tempReportData, FALSE, FinalTimer(RemoveAt(pending, i)))
            /\ Finalized(pending[i].draft,
                         [lat |-> ld.coordinates[1].lat, lng |-> ld.coordinates[1].lng],
                         ld.neighborhood, "text", ld.coordinates[1])
    /\ Internal
    /\ UNCHANGED << view, waitingForLocation, showMapPicker, flow >>

\* The timer finalizeReport sets: confirmation, post-completion prompt, COMPLETED.
FinalizeTimer ==
  \E i \in 1..Len(pending) :
    /\ pending[i].k = "finalT"
    /\ Upd(addMessage(
             addMessage(messages,
               Plain(<<"Denuncia registrada e analisada pela IA. O local foi adicionado ao mapa de risco.">>, BOT)),
             QuickPrompt(<<"O que deseja fazer agora?">>, POST_OPTIONS)),
           COMPLETED, tempReportData, FALSE, RemoveAt(pending, i))
    /\ NotFinalized
    /\ Internal
    /\ UNCHANGED << view, waitingForLocation, showMapPicker, flow >>

\* The option values of the quick-reply buttons the transcript shows.
Shown(options) ==
  { options[j].value : j \in { j \in 1..Len(options) : j <= MaxOption } }

QuickReplyValues ==
  UNION { Shown(messages[n].options) :
            n \in { n \in 1..Len(messages) : messages[n].isQuickReply } }

LabelOf(value) ==
  IF \E j \in 1..Len(MAIN_CATEGORIES) : MAIN_CATEGORIES[j].value = value
  THEN MAIN_CATEGORIES[CHOOSE j \in 1..Len(MAIN_CATEGORIES) : MAIN_CATEGORIES[j].value = value].label
  ELSE value

ValidQuickReply(value) ==
  /\ Idle
  /\ LatestPrompt # <<>>
  /\ LatestPrompt[1].isQuickReply
  /\ value \in Shown(LatestPrompt[1].options)

\* handlePostCompletionAction.
handlePostCompletionAction(value) ==
  \/ /\ value = "NEW_REPORT"
     /\ CanSpawn
     /\ Upd(addMessage(messages, Plain(<<"Nova denuncia">>, USER)), currentStep, EmptyDraft,
            isTyping, Append(pending, Task("newT", <<>>, EmptyDraft)))
     /\ flow' = IF cfg.trace THEN flow + 1 ELSE flow
     /\ IF cfg.trace THEN NotFinalized ELSE setReports(<<>>) /\ audit' = <<>>
     /\ UNCHANGED view
  \/ /\ value = "VIEW_MAP"
     /\ view' = "dashboard"
     /\ Upd(messages, currentStep, tempReportData, isTyping, pending)
     /\ NotFinalized
     /\ UNCHANGED flow

\* handleQuickReply.  In the other steps the handler does nothing.
handleQuickReply(value) ==
  /\ ChatVisible /\ ~showMapPicker
  /\ UserEvent(ValidQuickReply(value))
  /\ \/ /\ currentStep = CATEGORY_SELECTION
        /\ CanSpawn
        /\ Upd(addMessage(messages, Plain(<<LabelOf(value)>>, USER)), currentStep,
               [EmptyDraft EXCEPT !.category = Some(value)], TRUE,
               Append(pending,
                      IF SUB_CATEGORIES(value) # <<>>
                      THEN Task("subT", value, EmptyDraft)
                      ELSE Task("descT0", LabelOf(value), EmptyDraft)))
        /\ NotFinalized
        /\ UNCHANGED << view, flow >>
     \/ /\ currentStep = SUBCATEGORY_SELECTION
        /\ CanSpawn
        /\ Upd(addMessage(messages, Plain(<<value>>, USER)), currentStep,
               [tempReportData EXCEPT !.subcategory = Some(value)], TRUE,
               Append(pending, Task("detailT", <<>>, EmptyDraft)))
        /\ NotFinalized
        /\ UNCHANGED << view, flow >>
     \/ /\ currentStep = COMPLETED
        /\ handlePostCompletionAction(value)
  /\ UNCHANGED << waitingForLocation, showMapPicker >>

QuickReply == \E value \in QuickReplyValues : handleQuickReply(value)

\* The timer of the main-category branch: the sub-category prompt.
SubcategoryPrompt ==
  \E i \in 1..Len(pending) :
    /\ pending[i].k = "subT"
    /\ Upd(addMessage(messages,
             QuickPrompt(<<"Pode especificar melhor o problema?">>, SUB_CATEGORIES(pending[i].arg))),
           SUBCATEGORY_SELECTION, tempReportData, FALSE, RemoveAt(pending, i))
    /\ NotFinalized
    /\ Internal
    /\ UNCHANGED << view, waitingForLocation, showMapPicker, flow >>

\* The timer of the branch for a value without sub-categories.
DescriptionPrompt ==
  \E i \in 1..Len(pending) :
    /\ pending[i].k = "descT0"
    /\ Upd(addMessage(messages,
             Plain(<<"Certo, ", pending[i].arg, ". Por favor, descreva a situacao ou envie uma foto.">>, BOT)),
           DESCRIPTION, tempReportData, FALSE, RemoveAt(pending, i))
    /\ NotFinalized
    /\ Internal
    /\ UNCHANGED << view, waitingForLocation, showMapPicker, flow >>

\* The timer of the sub-category branch leaving the step as it is.
DetailPromptKeepsStep ==
  \E i \in 1..Len(pending) :
    /\ pending[i].k = "detailT"
    /\ Upd(addMessage(messages,
             Plain(<<"Entendido. Se tiver mais detalhes ou uma foto, pode enviar agora. Caso contrario, apenas digite 'ok'.">>, BOT)),
           currentStep, tempReportData, FALSE, RemoveAt(pending, i))
    /\ NotFinalized
    /\ Internal
    /\ UNCHANGED << view, waitingForLocation, showMapPicker, flow >>

\* The timer of the sub-category branch.
DetailPrompt ==
  \E i \in 1..Len(pending) :
    /\ pending[i].k = "detailT"
    /\ Upd(addMessage(messages,
             Plain(<<"Entendido. Se tiver mais detalhes ou uma foto, pode enviar agora. Caso contrario, apenas digite 'ok'.">>, BOT)),
           DESCRIPTION, tempReportData, FALSE, RemoveAt(pending, i))
    /\ NotFinalized
    /\ Internal
    /\ UNCHANGED << view, waitingForLocation, showMapPicker, flow >>

\* The timer of the 'new report' action leaving the step as it is.
NewReportPromptKeepsStep ==
  \E i \in 1..Len(pending) :
    /\ pending[i].k = "newT"
    /\ Upd(addMessage(messages,
             QuickPrompt(<<"Sobre qual tipo de problema climatico deseja alertar?">>, MAIN_CATEGORIES)),
           currentStep, tempReportData, isTyping, RemoveAt(pending, i))
    /\ NotFinalized
    /\ Internal
    /\ UNCHANGED << view, waitingForLocation, showMapPicker, flow >>

\* The timer of the 'new report' action.
NewReportPrompt ==
  \E i \in 1..Len(pending) :
    /\ pending[i].k = "newT"
    /\ Upd(addMessage(messages,
             QuickPrompt(<<"Sobre qual tipo de problema climatico deseja alertar?">>, MAIN_CATEGORIES)),
           CATEGORY_SELECTION, tempReportData, isTyping, RemoveAt(pending, i))
    /\ NotFinalized
    /\ Internal
    /\ UNCHANGED << view, waitingForLocation, showMapPicker, flow >>
\* A location-request message, with its three buttons, is in the transcript.
LocationButtonsShown == \E n \in 1..Len(messages) : messages[n].isLocationRequest

ValidLocation ==
  /\ Idle
  /\ LatestPrompt # <<>>
  /\ LatestPrompt[1].isLocationRequest
  /\ \/ currentStep = LOCATION_METHOD_SELECTION
     \/ currentStep = LOCATION_INPUT_MAP /\ ~showMapPicker

GpsCoordinates == Coord(0 - 129700, 0 - 385000)
MapCoordinates == Coord(0 - 129900, 0 - 384800)

\* handleLocationRequest('gps') where navigator has geolocation; the button is
\* disabled while waitingForLocation.
RequestGps ==
  /\ ChatVisible /\ ~showMapPicker /\ LocationButtonsShown
  /\ UserEvent(ValidLocation)
  /\ ~waitingForLocation
  /\ CanSpawn
  /\ waitingForLocation' = TRUE
  /\ Upd(messages, currentStep, tempReportData, isTyping,
         Append(pending, Task("gps", <<>>, tempReportData)))
  /\ NotFinalized
  /\ UNCHANGED << view, showMapPicker, flow >>

\* handleLocationRequest('gps') where navigator has no geolocation.
RequestGpsUnsupported ==
  /\ ChatVisible /\ ~showMapPicker /\ LocationButtonsShown
  /\ UserEvent(ValidLocation)
  /\ ~waitingForLocation
  /\ waitingForLocation' = FALSE
  /\ Upd(addMessage(messages, Plain(<<"GPS nao suportado.">>, BOT)), currentStep,
         tempReportData, isTyping, pending)
  /\ NotFinalized
  /\ UNCHANGED << view, showMapPicker, flow >>

\* getCurrentPosition's success callback.
GpsSuccess ==
  \E i \in 1..Len(pending) :
    /\ pending[i].k = "gps"
    /\ waitingForLocation' = FALSE
    /\ Upd(addMessage(messages, Plain(<<"Localizacao GPS recebida.">>, USER)), currentStep,
           tempReportData, TRUE, FinalTimer(RemoveAt(pending, i)))
    /\ Finalized(pending[i].draft, GpsCoordinates, Some("Localizacao GPS"), "gps", GpsCoordinates)
    /\ Internal
    /\ UNCHANGED << view, showMapPicker, flow >>

\* GpsError without clearing the waiting flag.
GpsErrorStillWaiting ==
  \E i \in 1..Len(pending) :
    /\ pending[i].k = "gps"
    /\ waitingForLocation' = waitingForLocation
    /\ Upd(addMessage(messages,
             Plain(<<"Erro ao obter GPS. Tente digitar o bairro ou usar o mapa.">>, BOT)),
           currentStep, tempReportData, isTyping, RemoveAt(pending, i))
    /\ NotFinalized
    /\ Internal
    /\ UNCHANGED << view, showMapPicker, flow >>

\* getCurrentPosition's error callback.
GpsError ==
  \E i \in 1..Len(pending) :
    /\ pending[i].k = "gps"
    /\ waitingForLocation' = FALSE
    /\ Upd(addMessage(messages,
             Plain(<<"Erro ao obter GPS. Tente digitar o bairro ou usar o mapa.">>, BOT)),
           currentStep, tempReportData, isTyping, RemoveAt(pending, i))
    /\ NotFinalized
    /\ Internal
    /\ UNCHANGED << view, showMapPicker, flow >>

\* handleLocationRequest('text').
RequestText ==
  /\ ChatVisible /\ ~showMapPicker /\ LocationButtonsShown
  /\ UserEvent(ValidLocation)
  /\ CanSpawn
  /\ Upd(addMessage(messages, Plain(<<"Vou digitar o endereco/bairro">>, USER)), currentStep,
         tempReportData, TRUE, Append(pending, Task("textT", <<>>, EmptyDraft)))
  /\ NotFinalized
  /\ UNCHANGED << view, waitingForLocation, showMapPicker, flow >>

\* The timer of handleLocationRequest('text').
TextLocationPrompt ==
  \E i \in 1..Len(pending) :
    /\ pending[i].k = "textT"
    /\ Upd(addMessage(messages,
             Plain(<<"Por favor, digite o nome do bairro e um ponto de referencia proximo.">>, BOT)),
           LOCATION_INPUT_TEXT, tempReportData, FALSE, RemoveAt(pending, i))
    /\ NotFinalized
    /\ Internal
    /\ UNCHANGED << view, waitingForLocation, showMapPicker, flow >>

\* handleLocationRequest('map').
RequestMap ==
  /\ ChatVisible /\ ~showMapPicker /\ LocationButtonsShown
  /\ UserEvent(ValidLocation)
  /\ showMapPicker' = TRUE
  /\ Upd(addMessage(messages, Plain(<<"Vou marcar no mapa">>, USER)), LOCATION_INPUT_MAP,
         tempReportData, isTyping, pending)
  /\ NotFinalized
  /\ UNCHANGED << view, waitingForLocation, flow >>

\* handleMapLocationSelect leaving the picker open.
MapLocationSelectStaysOpen ==
  /\ ChatVisible /\ showMapPicker
  /\ UserEvent(Idle)
  /\ CanSpawn
  /\ showMapPicker' = showMapPicker
  /\ Upd(addMessage(messages, Plain(<<"Local marcado no mapa.">>, USER)), currentStep,
         tempReportData, TRUE, FinalTimer(pending))
  /\ Finalized(tempReportData, MapCoordinates, Some("Marcado no Mapa"), "map", MapCoordinates)
  /\ UNCHANGED << view, waitingForLocation, flow >>

\* handleMapLocationSelect: the picker's confirm button, after a tap.
MapLocationSelect ==
  /\ ChatVisible /\ showMapPicker
  /\ UserEvent(Idle)
  /\ CanSpawn
  /\ showMapPicker' = FALSE
  /\ Upd(addMessage(messages, Plain(<<"Local marcado no mapa.">>, USER)), currentStep,
         tempReportData, TRUE, FinalTimer(pending))
  /\ Finalized(tempReportData, MapCoordinates, Some("Marcado no Mapa"), "map", MapCoordinates)
  /\ UNCHANGED << view, waitingForLocation, flow >>

\* onCloseMapPicker.
CloseMapPicker ==
  /\ ChatVisible /\ showMapPicker
  /\ UserEvent(Idle)
  /\ showMapPicker' = FALSE
  /\ Upd(messages, currentStep, tempReportData, isTyping, pending)
  /\ NotFinalized
  /\ UNCHANGED << view, waitingForLocation, flow >>

\* The navigation bar's two buttons.  A user who follows the protocol leaves
\* the chat only through 'Ver Mapa de Risco', and comes back to it.
SetView ==
  \E v \in {"chat", "dashboard"} :
    /\ v # view
    /\ UserEvent(v = "chat")
    /\ view' = v
    /\ Upd(messages, currentStep, tempReportData, isTyping, pending)
    /\ NotFinalized
    /\ UNCHANGED << waitingForLocation, showMapPicker, flow >>

(*************************** the controller's runs **************************)
\* Object-valued analysis responses the controller is run against.
CtlAnalyzeTransports ==
  { Rejected, Resolved(Some(JsonBody(AnalysisOk))),
    Resolved(Some(JsonBody(AnalysisOutOfRange))),
    Resolved(Some(JsonBody(AnalysisNoSeverity))) }

CtlLocationTransports ==
  { Rejected, Resolved(Some(JsonBody(LocationOk))),
    Resolved(Some(JsonBody(LocationNoCoordinates))),
    Resolved(Some(JsonBody(LocationEmptyCoordinates))) }

CtlInferTransports == { Rejected, Resolved(Some(PlainBody(<<STRUCTURE>>))) }

CtlGreetingTransports == { Rejected, Resolved(Some(PlainBody(<<"Ola, sou o EcoSalvador.">>))) }

\* The steps that involve no AI reply: the user's gestures, the timers and the
\* geolocation callbacks.
UserStep ==
  \/ SendText
  \/ QuickReply
  \/ RequestGps
  \/ RequestGpsUnsupported
  \/ RequestText
  \/ RequestMap
  \/ MapLocationSelect
  \/ CloseMapPicker
  \/ SetView

\* The timers on the paths of the prompts' own buttons.  (Every main category
\* has sub-categories: DescriptionPrompt takes a value of another prompt.)
TimerStep ==
  \/ GreetingPrompt
  \/ DescLocationPrompt
  \/ FinalizeTimer
  \/ SubcategoryPrompt
  \/ DetailPrompt
  \/ NewReportPrompt
  \/ TextLocationPrompt

\* The two timers of the branch taken when a typed answer was classified.
SkipTimerStep == SkipAnalysisMessage \/ SkipLocationPrompt

GpsCallback == GpsSuccess \/ GpsError

\* The continuations that resume after an AI gateway call.
AiReply ==
  \/ GreetingReply(CtlGreetingTransports)
  \/ InferReply(CtlInferTransports)
  \/ AnalyzeSkipReply(CtlAnalyzeTransports)
  \/ AnalyzeDescReply(CtlAnalyzeTransports)
  \/ ExtractReply(CtlLocationTransports)

Next ==
  UserStep \/ TimerStep \/ DescriptionPrompt \/ SkipTimerStep \/ GpsCallback \/ AiReply

Spec == Init /\ [][Next]_vars

(******************* the dialogue with a user who keeps answering ***********)
\* The user answers each prompt and never leaves the protocol; the run is not
\* bounded in length.
LiveInit ==
  InitWith([trace |-> FALSE, maxEvents |-> 0, maxStray |-> 0])

\* Timers fire, AI calls settle, the geolocation request calls back, and the
\* user does not stop while a gesture is open to them.
Fairness ==
  /\ WF_vars(TimerStep \/ SkipTimerStep)
  /\ WF_vars(AiReply)
  /\ WF_vars(GpsCallback)
  /\ WF_vars(UserStep)

LiveNext == UserStep \/ TimerStep \/ SkipTimerStep \/ GpsCallback \/ AiReply

LiveSpec == LiveInit /\ [][LiveNext]_vars /\ Fairness

(************** bounded runs of a user who follows the protocol *************)
\* Every event answers the latest prompt while nothing is in flight; the
\* transcript, the clock and the events are recorded in full.
ProtocolInit ==
  InitWith([trace |-> TRUE, maxEvents |-> MaxUserEvents, maxStray |-> 0])

ProtocolSpec == ProtocolInit /\ [][LiveNext]_vars

(************* bounded runs with two events off the protocol ****************)
\* A callback of one flow can only outlive the flow when the user acts twice
\* while something is in flight: once to start it, once to begin anew.
MaxStrayOverlap == 2

OverlapInit ==
  InitWith([trace |-> TRUE, maxEvents |-> MaxUserEvents, maxStray |-> MaxStrayOverlap])

\* The AI service answers every call as asked.
AnsweringAiReply ==
  \/ GreetingReply({Resolved(Some(PlainBody(<<"Ola, sou o EcoSalvador.">>)))})
  \/ InferReply({Resolved(Some(PlainBody(<<STRUCTURE>>)))})
  \/ AnalyzeSkipReply({Resolved(Some(JsonBody(AnalysisOk)))})
  \/ AnalyzeDescReply({Resolved(Some(JsonBody(AnalysisOk)))})
  \/ ExtractReply({Resolved(Some(JsonBody(LocationOk)))})

OverlapNext ==
  UserStep \/ TimerStep \/ DescriptionPrompt \/ SkipTimerStep \/ GpsCallback \/ AnsweringAiReply

OverlapSpec == OverlapInit /\ [][OverlapNext]_vars

(************* bounded runs with an AI that answers by the description ******)
\* What the AI says of a description without words (a photo alone).
AnalysisPhoto == JObj([text |-> Some(<<"foto">>), severity |-> Some(2)])

\* The analysis the AI gives depends on the description it is asked about,
\* so that a result can be told from the result of another call.
AnswerFor(description) ==
  Resolved(Some(JsonBody(IF description # <<>> /\ description[Len(description)] = "ok"
                         THEN AnalysisOk ELSE AnalysisPhoto)))

MatchedAnalyzeSkipReply ==
  \E i \in 1..Len(pending) :
    /\ pending[i].k = "analyzeSkip"
    /\ AnalyzeSkipReply({AnswerFor(pending[i].arg.description)})
    /\ \E text \in {Some(<<"analise">>), Some(<<"foto">>)} :
         pending' = Append(RemoveAt(pending, i), Task("skipT1", text, EmptyDraft))

MatchedAnalyzeDescReply ==
  \E i \in 1..Len(pending) :
    /\ pending[i].k = "analyzeDesc"
    /\ AnalyzeDescReply({AnswerFor(pending[i].arg.description)})
    /\ pending' = Append(RemoveAt(pending, i), Task("descT", <<>>, EmptyDraft))

MatchSpec ==
  /\ Init
  /\ [][\/ UserStep \/ TimerStep \/ SkipTimerStep \/ GpsCallback
        \/ GreetingReply({Resolved(Some(PlainBody(<<"Ola, sou o EcoSalvador.">>)))})
        \/ InferReply({Resolved(Some(PlainBody(<<STRUCTURE>>)))})
        \/ MatchedAnalyzeSkipReply
        \/ MatchedAnalyzeDescReply
        \/ ExtractReply({Resolved(Some(JsonBody(LocationOk)))})]_vars

(************** bounded runs that go on after the dashboard action **********)
\* A run that files a report, takes the 'view dashboard' action and goes on
\* needs more events than the other bounded runs.
MaxEventsViewed == 5

\* handleQuickReply('VIEW_MAP') in COMPLETED, noted: lastAi remembers the
\* action and the flow it was handled in.  It is noted when nothing is in
\* flight, so that what moves the step later on is an event that came later.
ViewDashboardNoted ==
  /\ ChatVisible /\ ~showMapPicker
  /\ Idle
  /\ "VIEW_MAP" \in QuickReplyValues
  /\ UserEvent(ValidQuickReply("VIEW_MAP"))
  /\ currentStep = COMPLETED
  /\ view' = "dashboard"
  /\ lastAi' = [op |-> "VIEW_MAP", args |-> flow]
  /\ NotFinalized
  /\ UNCHANGED << messages, currentStep, tempReportData, isTyping, waitingForLocation,
                  showMapPicker, pending, now, flow, cfg >>

ViewedSpec ==
  /\ InitWith([trace |-> TRUE, maxEvents |-> MaxEventsViewed, maxStray |-> MaxStray])
  /\ [][OverlapNext \/ ViewDashboardNoted]_vars

(******************* the Dashboard given any report collection **************)
\* Reports arrive one by one, each followed by a render of the Dashboard; what
\* matters of a Report here is its neighborhood label, which may be missing
\* or empty, and its severity.
MaxReports == 7

ArrivingReports ==
  { [severity |-> 4, neighborhood |-> None],
    [severity |-> 5, neighborhood |-> Some("")],
    [severity |-> 4, neighborhood |-> Some("Barra")],
    [severity |-> 5, neighborhood |-> Some("Barra")],
    [severity |-> 5, neighborhood |-> Some("Pituba")] }

DashboardInit ==
  InitWith([trace |-> TRUE, maxEvents |-> 0, maxStray |-> 0])

ReportArrives ==
  \E a \in ArrivingReports :
    /\ Len(reports) < MaxReports
    /\ Finalized([EmptyDraft EXCEPT !.severity = Some(a.severity),
                                    !.category = Some(STRUCTURE)],
                 MapCoordinates, a.neighborhood, "text", MapCoordinates)
    /\ UNCHANGED << view, messages, currentStep, tempReportData, isTyping,
                    waitingForLocation, showMapPicker, pending, now, events,
                    strays, flow, lastAi, cfg >>

DashboardSpec == DashboardInit /\ [][ReportArrives]_vars

\* Shorter collections of Reports that differ in category and cover the
\* severities below, at and above the buckets' limits; and renders of the
\* Dashboard that no new Report causes (App renders again on every change of
\* its state), each noting the collection and the tables it found.
MaxMixedReports == 4

MixedReports ==
  { [severity |-> 1, neighborhood |-> None, category |-> Some(STRUCTURE)],
    [severity |-> 2, neighborhood |-> Some("Barra"), category |-> Some(FLOODING)],
    [severity |-> 3, neighborhood |-> Some("Barra"), category |-> Some(STRUCTURE)],
    [severity |-> 3, neighborhood |-> Some("Pituba"), category |-> None],
    [severity |-> 4, neighborhood |-> Some("Pituba"), category |-> Some(FLOODING)],
    [severity |-> 5, neighborhood |-> Some("Barra"), category |-> Some(STRUCTURE)],
    [severity |-> 7, neighborhood |-> None, category |-> Some(LANDSLIDE)] }

MixedReportArrives ==
  \E a \in MixedReports :
    /\ Len(reports) < MaxMixedReports
    /\ Finalized([EmptyDraft EXCEPT !.severity = Some(a.severity),
                                    !.category = a.category],
                 MapCoordinates, a.neighborhood, "text", MapCoordinates)
    /\ UNCHANGED << view, messages, currentStep, tempReportData, isTyping,
                    waitingForLocation, showMapPicker, pending, now, events,
                    strays, flow, lastAi, cfg >>

Rerender ==
  /\ setReports(reports)
  /\ lastAi' = [result |-> dash, op |-> "render", args |-> reports]
  /\ UNCHANGED << view, messages, currentStep, tempReportData, isTyping,
                  waitingForLocation, showMapPicker, pending, now, events,
                  strays, audit, flow, cfg >>

AggregatorNext == MixedReportArrives \/ Rerender

AggregatorSpec == DashboardInit /\ [][AggregatorNext]_vars

(********************* the dialogue while the AI service is down ************)
\* What a call settles to while the service is down: a rejection, a response
\* without text, or text that is not the JSON asked for.
Outage == {Rejected} \cup FailingBodies

OutageAiReply ==
  \/ GreetingReply(Outage)
  \/ InferReply(Outage)
  \/ AnalyzeDescReply(Outage)
  \/ ExtractReply(Outage)

OutageNext == UserStep \/ TimerStep \/ GpsCallback \/ OutageAiReply

OutageInit ==
  InitWith([trace |-> FALSE, maxEvents |-> 0, maxStray |-> MaxStray])

\* The choices of a user who wants the report filed: the buttons of the
\* category and sub-category prompts, then the typed address.
QuickReplyIn(step) == QuickReply /\ currentStep = step

OutageFairness ==
  /\ WF_vars(TimerStep)
  /\ WF_vars(OutageAiReply)
  /\ WF_vars(GpsCallback)
  /\ WF_vars(UserStep)
  /\ SF_vars(QuickReplyIn(CATEGORY_SELECTION))
  /\ SF_vars(QuickReplyIn(SUBCATEGORY_SELECTION))
  /\ SF_vars(RequestText)

OutageSpec == OutageInit /\ [][OutageNext]_vars /\ OutageFairness

(********************** the gateway called on its own ***********************)
GatewayTexts == { <<>>, <<"ok">>, <<"[", "Bueiro entupido", "] - ", "ok">> }

GatewayCall(op, args, t, result) ==
  /\ lastAi' = [result |-> result, op |-> op, args |-> args, transport |-> t]
  /\ UNCHANGED << view, messages, reports, currentStep, tempReportData, isTyping,
                  waitingForLocation, showMapPicker, pending, now, events, strays,
                  audit, flow, cfg, dash >>

CallAnalyze ==
  \E d \in GatewayTexts, c \in {None, Some(STRUCTURE), Some("NEW_REPORT")}, t \in AnalyzeTransports :
    GatewayCall("analyzeDescription", <<d, c>>, t, analyzeReportDescription(d, c, t))

CallExtract ==
  \E x \in GatewayTexts, t \in LocationTransports :
    GatewayCall("extractLocation", <<x>>, t, extractLocationFromText(x, t))

CallGreeting ==
  \E t \in GreetingTransports :
    GatewayCall("generateGreeting", <<>>, t, generateInitialGreeting(t))

CallInfer ==
  \E x \in GatewayTexts, t \in InferTransports :
    GatewayCall("inferCategory", <<x>>, t, inferCategoryFromText(x, t))

GatewayNext == CallAnalyze \/ CallExtract \/ CallGreeting \/ CallInfer

GatewaySpec == Init /\ [][GatewayNext]_vars
(******************************** claims ************************************)
ReportsOfFlow(f) == Cardinality({ n \in 1..Len(audit) : audit[n].flow = f })

\* C1: every report flow appends exactly one Report, whatever location events
\* occur: no flow ever holds more than one, and a flow that a 'new report'
\* action has ended holds exactly one.
C1_ExactlyOneReportPerFlow ==
  \A f \in 0..flow : ReportsOfFlow(f) <= 1 /\ (f < flow => ReportsOfFlow(f) = 1)

\* C2: every Report has an integer severity in 1..5 and a non-empty category,
\* whatever the AI gateway returned.
C2_SeverityAndCategory ==
  \A n \in 1..Len(reports) :
    reports[n].severity \in 1..5 /\ reports[n].category # ""

\* C3: every Report carries a latitude/longitude pair, the one delivered by the
\* GPS callback, by extractLocation's result or by the confirmed map tap that
\* appended it.
C3_ResolvedCoordinate ==
  \A n \in 1..Len(reports) :
    /\ audit[n].source \in {"gps", "text", "map"}
    /\ reports[n].location = audit[n].delivered
    /\ reports[n].location.lat # None
    /\ reports[n].location.lng # None

\* A continuation of a user-triggered handler is still to run.
UserHandlerInFlight ==
  \E i \in 1..Len(pending) : pending[i].k \notin {"greet", "greetT"}

\* C4: while a user-triggered handler has not yet applied its last append and
\* step change, no other user event is applied to the step, draft or transcript.
C4_NoInterleaving ==
  [][ (events' # events /\ << currentStep, tempReportData, messages >>' #
                            << currentStep, tempReportData, messages >>)
        => ~UserHandlerInFlight ]_vars

\* C5: the draft is empty right after a Report is appended and right after a
\* 'new report' action.
C5_DraftResetOnEmit ==
  [][ (Len(reports') > Len(reports) \/ flow' > flow) => tempReportData' = EmptyDraft ]_vars

TransitionTable ==
  { << GREETING, CATEGORY_SELECTION >>,
    << CATEGORY_SELECTION, SUBCATEGORY_SELECTION >>,
    << CATEGORY_SELECTION, DESCRIPTION >>,
    << CATEGORY_SELECTION, LOCATION_METHOD_SELECTION >>,
    << SUBCATEGORY_SELECTION, DESCRIPTION >>,
    << SUBCATEGORY_SELECTION, LOCATION_METHOD_SELECTION >>,
    << SUBCATEGORY_SELECTION, CATEGORY_SELECTION >>,
    << DESCRIPTION, LOCATION_METHOD_SELECTION >>,
    << LOCATION_METHOD_SELECTION, LOCATION_INPUT_TEXT >>,
    << LOCATION_METHOD_SELECTION, LOCATION_INPUT_MAP >>,
    << LOCATION_METHOD_SELECTION, COMPLETED >>,
    << LOCATION_INPUT_TEXT, COMPLETED >>,
    << LOCATION_INPUT_MAP, COMPLETED >>,
    << COMPLETED, CATEGORY_SELECTION >> }

\* C6: every change of the dialogue step is a transition of the table of 4.3.
C6_TableTransitions ==
  [][ currentStep' # currentStep => << currentStep, currentStep' >> \in TransitionTable ]_vars

\* C8: when the transport rejects the call, each gateway operation returns its
\* fixed fallback and raises nothing: severity 3 with the reassurance text,
\* 'Salvador (Centro)' at (-12.9777, -38.5016) with the apology text, the
\* canned greeting, and no match.
C8_FallbackOnTransportFailure ==
  (lastAi.op # "none" /\ lastAi.transport.rejected) =>
    /\ ~lastAi.result.threw
    /\ lastAi.op = "analyzeDescription" =>
         lastAi.result.value =
           JObj([text |-> Some(AnalyzeFallbackText), severity |-> Some(3)])
    /\ lastAi.op = "extractLocation" =>
         lastAi.result.value =
           JObj([ neighborhood |-> Some("Salvador (Centro)"),
                  coordinates |-> Some([lat |-> Some(0 - 129777), lng |-> Some(0 - 385016)]),
                  confirmationText |-> Some(LocationFallbackText) ])
    /\ lastAi.op = "generateGreeting" => lastAi.result.value = CannedGreeting
    /\ lastAi.op = "inferCategory" => lastAi.result.value = None

C8_Witness ==
  /\ lastAi.op = "extractLocation"
  /\ lastAi.transport.rejected
  /\ lastAi.result.value.obj.neighborhood = Some("Salvador (Centro)")

\* A response that JSON.parse accepts but that is null or lacks a required field.
LacksField(op, t) ==
  /\ ~t.rejected /\ ~NoText(t) /\ t.text[1].isJson
  /\ \/ t.text[1].value.null
     \/ /\ op = "analyzeDescription"
        /\ \/ t.text[1].value.obj.text = None
           \/ t.text[1].value.obj.severity = None
     \/ /\ op = "extractLocation"
        /\ \/ t.text[1].value.obj.neighborhood = None
           \/ t.text[1].value.obj.coordinates = None
           \/ t.text[1].value.obj.confirmationText = None

ExternalFailure(op, t) ==
  \/ t.rejected
  \/ NoText(t)
  \/ ~t.text[1].isJson
  \/ LacksField(op, t)

\* C9: analyzeDescription and extractLocation return exactly their fallback on
\* any failure of the external call, a response lacking a required field
\* included, and raise nothing.
C9_FallbackOnAnyFailure ==
  (lastAi.op \in {"analyzeDescription", "extractLocation"}
     /\ ExternalFailure(lastAi.op, lastAi.transport)) =>
    /\ ~lastAi.result.threw
    /\ lastAi.result.value =
         IF lastAi.op = "analyzeDescription" THEN AnalyzeFallback ELSE LocationFallback
CategoryInferred ==
  /\ InferReply(CtlInferTransports)
  /\ \E i \in 1..Len(pending') : pending'[i].k = "analyzeSkip"

\* A location attempt delivers: a Report is appended.
LocationObtained ==
  /\ GpsSuccess \/ MapLocationSelect \/ ExtractReply(CtlLocationTransports)
  /\ Len(reports') > Len(reports)

FiledByButtonsAndText(n) ==
  /\ audit[n].source = "text"
  /\ reports[n].subcategory # None
  /\ reports[n].description # <<>>
  /\ reports[n].description[1] = "["

C10_OutageReport ==
  \A n \in 1..Len(reports) :
    FiledByButtonsAndText(n) =>
      /\ reports[n].severity = 3
      /\ reports[n].location = [lat |-> Some(0 - 129777), lng |-> Some(0 - 385016)]

\* C10: while every AI gateway call fails the dialogue does not stall: from
\* every reachable state, a user who goes on to press the category and
\* sub-category buttons and to type the address brings it to COMPLETED; and a
\* Report filed through buttons, typed description and typed address has
\* severity 3 and the city-centre fallback coordinate.
C10_NoStallDuringOutage ==
  /\ []C10_OutageReport
  /\ (currentStep # COMPLETED) ~> (currentStep = COMPLETED)

C10_Witness ==
  /\ currentStep = COMPLETED
  /\ \E n \in 1..Len(reports) :
       FiledByButtonsAndText(n) /\ reports[n].neighborhood = Some("Salvador (Centro)")

\* C11: whatever text the transport answers with, inferCategory returns a
\* value of the ReportCategory enumeration or no match, and raises nothing.
C11_InferredCategoryValidated ==
  lastAi.op = "inferCategory" =>
    /\ ~lastAi.result.threw
    /\ \/ lastAi.result.value = None
       \/ /\ Len(lastAi.result.value) = 1
          /\ lastAi.result.value[1] \in ReportCategory

\* A padded category name was trimmed and accepted.
C11_Witness ==
  /\ lastAi.op = "inferCategory"
  /\ ~lastAi.transport.rejected
  /\ lastAi.transport.text = Some(PlainBody(<<" ", FLOODING, "\n">>))
  /\ lastAi.result.value = Some(FLOODING)

\* What the user has said so far: the texts of the transcript's user messages.
IsUser(m) == m.sender = USER
UserSaid ==
  LET us == SelectSeq(messages, IsUser) IN [i \in 1..Len(us) |-> us[i].text[1]]

IsPrefix(a, b) == Len(a) <= Len(b) /\ a = SubSeq(b, 1, Len(a))

\* The user's side of the quick-reply path with GPS.
GpsPath(c, s, inp) ==
  << <<LabelOf(c)>>, <<s>>, inp.text, <<"Localizacao GPS recebida.">> >>

\* C12: category c and sub-category s by quick reply, a description, then a
\* GPS position, nothing else in between: one Report, with category c,
\* sub-category s, the severity analyzeDescription returned (the draft holds
\* it as returned), the GPS coordinate and label; the step is never
\* LOCATION_INPUT_TEXT or LOCATION_INPUT_MAP on the way and ends COMPLETED.
C12_QuickReplyGpsPath ==
  \A c \in Shown(MAIN_CATEGORIES), inp \in UserInputs :
    \A s \in Shown(SUB_CATEGORIES(c)) :
      /\ IsPrefix(UserSaid, GpsPath(c, s, inp)) =>
           currentStep \notin {LOCATION_INPUT_TEXT, LOCATION_INPUT_MAP}
      /\ UserSaid = GpsPath(c, s, inp) =>
           /\ Len(reports) = 1
           /\ reports[1].category = c
           /\ reports[1].subcategory = Some(s)
           /\ Some(reports[1].severity) = tempReportData.severity
           /\ reports[1].location = GpsCoordinates
           /\ reports[1].neighborhood = Some("Localizacao GPS")
           /\ \/ currentStep = COMPLETED
              \/ \E i \in 1..Len(pending) : pending[i].k = "finalT"

\* The continuations of kind k still to run.
CountK(p, k) == Cardinality({i \in 1..Len(p) : p[i].k = k})

\* The skip-ahead branch is past the category inference and not yet done.
SkipAheadRunning(p) ==
  \E i \in 1..Len(p) : p[i].k \in {"analyzeSkip", "skipT1", "skipT2"}

\* C13: free text at CATEGORY_SELECTION that inferCategory resolves to k: the
\* draft records category k and the raw text as description, the analysis
\* text (with its severity) is stored next, and from CATEGORY_SELECTION the
\* step changes only to LOCATION_METHOD_SELECTION, with the location prompt;
\* never to SUBCATEGORY_SELECTION or DESCRIPTION on the way.
C13_SkipAhead ==
  [][ /\ CountK(pending', "analyzeSkip") > CountK(pending, "analyzeSkip") =>
           LET tk == pending'[Len(pending')] IN
           /\ tk.arg.category[1] \in ReportCategory
           /\ tempReportData'.category = tk.arg.category
           /\ tempReportData'.description = Some(tk.arg.description)
      /\ CountK(pending', "skipT1") > CountK(pending, "skipT1") =>
           /\ tempReportData'.aiAnalysis = pending'[Len(pending')].arg
           /\ tempReportData'.category = tempReportData.category
           /\ tempReportData'.description = tempReportData.description
      /\ SkipAheadRunning(pending) /\ currentStep = CATEGORY_SELECTION =>
           \/ currentStep' = CATEGORY_SELECTION
           \/ /\ currentStep' = LOCATION_METHOD_SELECTION
              /\ CountK(pending', "skipT2") < CountK(pending, "skipT2")
    ]_vars

\* The bot's message after a failed GPS request.
IsGpsFailure(m) ==
  /\ m.sender = BOT
  /\ m.text \in {Some(<<"Erro ao obter GPS. Tente digitar o bairro ou usar o mapa.">>),
                 Some(<<"GPS nao suportado.">>)}

\* The GPS request ended in this step without the user message of a success.
GpsFailed ==
  \/ /\ CountK(pending', "gps") < CountK(pending, "gps")
     /\ ~(Len(messages') > Len(messages) /\ messages'[Len(messages')].sender = USER)
  \/ /\ Len(messages') > Len(messages)
     /\ messages'[Len(messages')].text = Some(<<"GPS nao suportado.">>)

\* C14: a failed GPS request (error callback, or no geolocation) clears the
\* waiting flag, appends the bot's error message, appends no Report and
\* leaves the step as it is, LOCATION_METHOD_SELECTION where it was started;
\* there the buttons still take the 'map' and the 'text' choice.
C14_GpsFailure ==
  /\ [][ GpsFailed =>
           /\ ~waitingForLocation'
           /\ Len(messages') = Len(messages) + 1
           /\ SubSeq(messages', 1, Len(messages)) = messages
           /\ IsGpsFailure(messages'[Len(messages')])
           /\ reports' = reports
           /\ currentStep' = currentStep
       ]_vars
  /\ [](/\ messages # <<>>
        /\ IsGpsFailure(messages[Len(messages)])
        /\ currentStep = LOCATION_METHOD_SELECTION
        /\ ChatVisible /\ ~showMapPicker /\ CanSpawn
        /\ events < cfg.maxEvents
        /\ Idle \/ strays < cfg.maxStray
        => ENABLED RequestMap /\ ENABLED RequestText)

\* After a GPS error at LOCATION_METHOD_SELECTION the map was chosen and the
\* picker is open; nothing was reported.
C14_Witness ==
  /\ Len(messages) >= 2
  /\ IsGpsFailure(messages[Len(messages) - 1])
  /\ messages[Len(messages)].text = Some(<<"Vou marcar no mapa">>)
  /\ showMapPicker
  /\ currentStep = LOCATION_INPUT_MAP
  /\ ~waitingForLocation
  /\ reports = <<>>

\* The place of the 'new report' timer among the continuations still to run;
\* what stands before it was started before the new flow began.
HasNewT(p) == \E j \in 1..Len(p) : p[j].k = "newT"
NewTIndex(p) == CHOOSE j \in 1..Len(p) : p[j].k = "newT" /\ \A i \in 1..(j - 1) : p[i].k # "newT"

\* C15: once 'new report' has been handled, a callback or timer started
\* before it appends no Report, does not change the step and does not write
\* the draft.  Stated for the time the new flow's first prompt is still due.
C15_NoOverlappingFlows ==
  [][ HasNewT(pending) /\ HasNewT(pending') /\ NewTIndex(pending') < NewTIndex(pending) =>
        /\ reports' = reports
        /\ currentStep' = currentStep
        /\ tempReportData' = tempReportData
    ]_vars

\* C16: every step leaves the transcript as it was or appends messages at its
\* end; no message is removed, moved or changed.
C16_TranscriptOnlyGrows == [][IsPrefix(messages, messages')]_vars

\* A flow was completed: the transcript holds the user's messages, the bot's
\* and, last, the two of the finalization timer.
C16_Witness ==
  /\ Len(messages) >= 6
  /\ messages[Len(messages)].options = POST_OPTIONS
  /\ messages[Len(messages) - 1].sender = BOT
  /\ \E n \in 1..Len(messages) : messages[n].sender = USER

\* C17: the messages of the transcript have pairwise distinct ids, also two
\* messages appended one after the other by the same handler.
C17_DistinctMessageIds ==
  \A i, j \in 1..Len(messages) : i # j => messages[i].id # messages[j].id

\* C18: every step leaves the Reports there are as they are and in their
\* order, and at most adds Reports at the end; the render of the Dashboard
\* that follows an addition is part of the step.
C18_ReportsAppendOnly == [][IsPrefix(reports, reports')]_vars

\* A second Report was added behind a first of higher severity, and the
\* Dashboard has derived its table from both.
C18_Witness ==
  /\ Len(reports) = 2
  /\ reports[1].severity > reports[2].severity
  /\ dash = Dashboard(reports)
  /\ dash.neighborhoodRisks # <<>>

\* The neighborhood label a Report counts under, and the Reports of a label.
LabelOfReport(r) ==
  IF r.neighborhood = None \/ r.neighborhood = Some("") THEN "Desconhecido"
  ELSE r.neighborhood[1]
GroupOf(label) == {j \in 1..Len(reports) : LabelOfReport(reports[j]) = label}

RECURSIVE SeveritySum(_)
SeveritySum(group) ==
  IF group = {} THEN 0
  ELSE LET j == CHOOSE j \in group : TRUE
       IN reports[j].severity + SeveritySum(group \ {j})

\* C19: the risk table has exactly one row per neighborhood label of the
\* collection, the Reports without a label counting under 'Desconhecido';
\* a row's count is the size of its group and its score, in tenths, is a
\* tenth nearest to the mean severity of the group.
C19_RiskTableValues ==
  LET T == dash.neighborhoodRisks
      labels == {LabelOfReport(reports[j]) : j \in 1..Len(reports)}
  IN /\ {T[i].name : i \in 1..Len(T)} = labels
     /\ Len(T) = Cardinality(labels)
     /\ \A i \in 1..Len(T) :
          LET n == Cardinality(GroupOf(T[i].name))
              d == 10 * SeveritySum(GroupOf(T[i].name)) - T[i].riskScore * n
          IN /\ T[i].totalReports = n
             /\ 2 * d <= n /\ 2 * (0 - d) <= n

\* Three rows: the unknown bucket holds a Report without label and one with
\* an empty label, and a mean of 4.25 shows as 4.3.
C19_Witness ==
  LET T == dash.neighborhoodRisks
  IN /\ Len(T) = 3
     /\ \E i \in 1..3 : T[i].name = "Desconhecido" /\ T[i].totalReports = 2
     /\ \E i \in 1..3 : T[i].totalReports = 4 /\ T[i].riskScore = 43
     /\ \E j \in 1..Len(reports) : reports[j].neighborhood = None
     /\ \E j \in 1..Len(reports) : reports[j].neighborhood = Some("")

\* Where a label first appears in the collection.
FirstAppearance(label) == CHOOSE j \in GroupOf(label) : \A i \in GroupOf(label) : j <= i

\* C20: the rows of the risk table are ordered by mean severity, highest
\* first; rows of equal mean severity stand in the order in which their
\* neighborhoods first appeared in the collection.
C20_RiskTableOrdering ==
  LET T == dash.neighborhoodRisks
  IN \A i, j \in 1..Len(T) :
       i < j =>
         LET ni == Cardinality(GroupOf(T[i].name))
             nj == Cardinality(GroupOf(T[j].name))
             si == SeveritySum(GroupOf(T[i].name))
             sj == SeveritySum(GroupOf(T[j].name))
         IN /\ si * nj >= sj * ni
            /\ si * nj = sj * ni => FirstAppearance(T[i].name) < FirstAppearance(T[j].name)

\* C21: the KPIs of every collection: the total is the number of Reports,
\* critical the number of those of severity 4 or more, the average a tenth
\* nearest to the mean of all severities; with no Reports the KPIs are 0, 0
\* and "0.0" and the category histogram and the severity buckets are empty.
C21_Kpis ==
  LET n == Len(reports)
      d == 10 * SeveritySum(1..n) - dash.avgSeverity * n
  IN /\ dash.totalReports = n
     /\ dash.criticalReports = Cardinality({j \in 1..n : reports[j].severity >= 4})
     /\ n > 0 => 2 * d <= n /\ 2 * (0 - d) <= n
     /\ n = 0 => /\ dash.avgSeverity = 0
                 /\ dash.categoryData = <<>>
                 /\ dash.severityData = <<>>

\* Four Reports of severities 1, 2, 3 and 7: one critical, the mean 3.25
\* shows as 3.3.
C21_Witness ==
  /\ Len(reports) = 4
  /\ {reports[j].severity : j \in 1..4} = {1, 2, 3, 7}
  /\ dash.totalReports = 4
  /\ dash.criticalReports = 1
  /\ dash.avgSeverity = 33

\* The count the severity buckets give under a name; 0 when the bucket is
\* not in the output.
BucketValue(name) ==
  LET S == dash.severityData
  IN IF \E i \in 1..Len(S) : S[i].name = name
     THEN (CHOOSE d \in {S[i] : i \in 1..Len(S)} : d.name = name).value
     ELSE 0

\* C22: the low bucket counts the Reports of severity 2 or less, the medium
\* bucket those of severity 3, the high bucket those of severity 4 or more;
\* the counts add up to the number of Reports, each bucket occurs at most
\* once, and a bucket that counts nothing is left out.
C22_SeverityBuckets ==
  LET S == dash.severityData
      n == Len(reports)
  IN /\ BucketValue("Baixo (1-2)") = Cardinality({j \in 1..n : reports[j].severity <= 2})
     /\ BucketValue("Medio (3)") = Cardinality({j \in 1..n : reports[j].severity = 3})
     /\ BucketValue("Critico (4-5)") = Cardinality({j \in 1..n : reports[j].severity >= 4})
     /\ BucketValue("Baixo (1-2)") + BucketValue("Medio (3)") + BucketValue("Critico (4-5)") = n
     /\ \A i \in 1..Len(S) :
          /\ S[i].value > 0
          /\ S[i].name \in {"Baixo (1-2)", "Medio (3)", "Critico (4-5)"}
          /\ \A j \in 1..Len(S) : S[i].name = S[j].name => i = j

\* Low and high Reports and none of severity 3: the output has two buckets.
C22_Witness ==
  /\ Len(reports) = 3
  /\ Len(dash.severityData) = 2
  /\ BucketValue("Baixo (1-2)") = 2
  /\ BucketValue("Critico (4-5)") = 1
  /\ \A j \in 1..3 : reports[j].severity # 3

RECURSIVE SumValues(_, _)
SumValues(rows, n) == IF n = 0 THEN 0 ELSE SumValues(rows, n - 1) + rows[n].value

\* C23: the category histogram has exactly one entry for each category that
\* occurs among the Reports, the entry's value is the number of Reports of
\* that category, the values add up to the number of Reports, and the
\* entries stand in non-increasing order of value.
C23_CategoryHistogram ==
  LET H == dash.categoryData
      n == Len(reports)
  IN /\ {H[i].fullName : i \in 1..Len(H)} = {reports[j].category : j \in 1..n}
     /\ \A i, j \in 1..Len(H) : H[i].fullName = H[j].fullName => i = j
     /\ \A i \in 1..Len(H) :
          H[i].value = Cardinality({j \in 1..n : reports[j].category = H[i].fullName})
     /\ SumValues(H, Len(H)) = n
     /\ \A i \in 1..(Len(H) - 1) : H[i].value >= H[i + 1].value

\* The category reported first is the rarer one, so the sort moves it back.
C23_Witness ==
  /\ Len(reports) = 4
  /\ Len(dash.categoryData) = 3
  /\ reports[1].category # dash.categoryData[1].fullName
  /\ dash.categoryData[1].value = 2
  /\ dash.categoryData[3].fullName = OTHER_CATEGORY

SubOptions ==
  UNION { { SUB_CATEGORIES(c)[j] : j \in 1..Len(SUB_CATEGORIES(c)) } : c \in ReportCategory }

DetailText ==
  <<"Entendido. Se tiver mais detalhes ou uma foto, pode enviar agora. Caso contrario, apenas digite 'ok'.">>

\* The quick reply of option o is handled in SUBCATEGORY_SELECTION and the
\* text t is what the transcript and the draft receive.
SubcategoryReplyGives(o, t) ==
  (currentStep = SUBCATEGORY_SELECTION /\ handleQuickReply(o.value)) =>
    /\ Len(messages') = Len(messages) + 1
    /\ SubSeq(messages', 1, Len(messages)) = messages
    /\ messages'[Len(messages')].sender = USER
    /\ messages'[Len(messages')].text = Some(<<t>>)
    /\ tempReportData'.subcategory = Some(t)
    /\ currentStep' = SUBCATEGORY_SELECTION
    /\ \E i \in 1..Len(pending') : pending'[i].k = "detailT"

\* The timer the reply started appends the prompt for detail and sets the step.
DetailPromptGives ==
  DetailPrompt =>
    /\ Len(messages') = Len(messages) + 1
    /\ messages'[Len(messages')].sender = BOT
    /\ messages'[Len(messages')].text = Some(DetailText)
    /\ currentStep' = DESCRIPTION

C26_MapPickerClosed ==
  [][CloseMapPicker =>
       /\ ~showMapPicker'
       /\ reports' = reports
       /\ currentStep' = LOCATION_METHOD_SELECTION]_vars

\* C27: while waitingForLocation is set or the map picker is open, no text
\* or image submission and no quick-reply selection reaches the controller.
C27_ControlsDisabled ==
  [][(waitingForLocation \/ showMapPicker) => ~(SendText \/ QuickReply)]_vars

\* A handler is suspended on an AI gateway call or on a pacing delay; each
\* of these continuations appends a bot message or starts the timer that
\* does.  The geolocation callback is neither.
SuspendedOnAiOrDelay ==
  \E i \in 1..Len(pending) : pending[i].k # "gps"

\* C28: in every reachable state in which a handler is suspended on an AI
\* gateway call or on a pacing delay whose continuation will still append a
\* bot message, isTyping is true.
C28_TypingFlag == SuspendedOnAiOrDelay => isTyping

\* Free text t is handled in DESCRIPTION: the call of analyzeDescription
\* carries '[s] - t', or t alone, and the draft's category.
DescriptionCallMade ==
  (currentStep = DESCRIPTION /\ SendText) =>
    LET m == messages'[Len(messages')]
        t == m.text[1]
        call == pending'[Len(pending')]
    IN /\ m.sender = USER
       /\ Len(pending') = Len(pending) + 1
       /\ call.k = "analyzeDesc"
       /\ call.arg.description =
            IF tempReportData.subcategory # None
            THEN <<"[", tempReportData.subcategory[1], "] - ">> \o t
            ELSE t
       /\ call.arg.category = tempReportData.category
       /\ currentStep' = DESCRIPTION

\* The call returns: the draft holds the full description, the returned
\* severity and the analysis text, the text is appended as a bot message and
\* the location prompt is still to come.
DescriptionCallReturns ==
  \A i \in 1..Len(pending) :
    (pending[i].k = "analyzeDesc"
       /\ pending' = Append(RemoveAt(pending, i), Task("descT", <<>>, EmptyDraft))) =>
      \E t \in CtlAnalyzeTransports :
        LET analysis ==
              analyzeReportDescription(pending[i].arg.description,
                                       pending[i].arg.category, t).value.obj
            m == messages'[Len(messages')]
        IN /\ tempReportData'.description = Some(pending[i].arg.description)
           /\ tempReportData'.severity = analysis.severity
           /\ tempReportData'.aiAnalysis = analysis.text
           /\ tempReportData'.category = tempReportData.category
           /\ tempReportData'.subcategory = tempReportData.subcategory
           /\ Len(messages') = Len(messages) + 1
           /\ SubSeq(messages', 1, Len(messages)) = messages
           /\ m.sender = BOT /\ m.text = analysis.text /\ ~m.isLocationRequest
           /\ currentStep' = currentStep

\* The timer the return started appends the location-method prompt after
\* everything the transcript holds, and sets the step with it.
DescriptionPromptFollows ==
  \A i \in 1..Len(pending) :
    (pending[i].k = "descT" /\ pending' = RemoveAt(pending, i)) =>
      /\ Len(messages') = Len(messages) + 1
      /\ SubSeq(messages', 1, Len(messages)) = messages
      /\ messages'[Len(messages')].sender = BOT
      /\ messages'[Len(messages')].isLocationRequest
      /\ currentStep' = LOCATION_METHOD_SELECTION

DashboardViewed == lastAi.op = "VIEW_MAP" /\ lastAi.args = flow

\* C30: the 'view dashboard' quick reply handled in COMPLETED switches the
\* view to the dashboard and leaves the transcript, the draft, the Reports
\* and the step as they were; afterwards the step stays COMPLETED until a
\* 'new report' action is handled, whatever other events occur.
C30_DashboardAction ==
  /\ [][((currentStep = COMPLETED /\ handleQuickReply("VIEW_MAP")) \/ ViewDashboardNoted) =>
          /\ view' = "dashboard"
          /\ UNCHANGED << messages, tempReportData, reports, currentStep >>]_vars
  /\ [](DashboardViewed => currentStep = COMPLETED)

\* The 'new report' quick reply is handled in COMPLETED.
NewReportHandled ==
  (currentStep = COMPLETED /\ handleQuickReply("NEW_REPORT")) =>
    /\ Len(messages') = Len(messages) + 1
    /\ SubSeq(messages', 1, Len(messages)) = messages
    /\ messages'[Len(messages')].sender = USER
    /\ tempReportData' = EmptyDraft
    /\ reports' = reports
    /\ currentStep' = COMPLETED
    /\ pending' = Append(pending, Task("newT", <<>>, EmptyDraft))

\* The timer the action started appends the category prompt and sets the step.
NewReportPromptFollows ==
  \A i \in 1..Len(pending) :
    (pending[i].k = "newT" /\ pending' = RemoveAt(pending, i)) =>
      LET m == messages'[Len(messages')]
      IN /\ Len(messages') = Len(messages) + 1
         /\ SubSeq(messages', 1, Len(messages)) = messages
         /\ m.sender = BOT /\ m.isQuickReply
         /\ m.options = MAIN_CATEGORIES
         /\ reports' = reports
         /\ currentStep' = CATEGORY_SELECTION

\* C31: the 'new report' quick reply handled in COMPLETED appends a user
\* message, empties the draft and leaves the Reports as they are; then a
\* quick-reply prompt carrying exactly the main categories is appended and
\* the step becomes CATEGORY_SELECTION.
C31_NewReportAction == [][NewReportHandled /\ NewReportPromptFollows]_vars

\* A second flow has begun after a filed Report.
C31_Witness ==
  /\ flow = 1
  /\ Len(reports) = 1
  /\ currentStep = CATEGORY_SELECTION
  /\ tempReportData = EmptyDraft
  /\ messages[Len(messages)].isQuickReply
  /\ messages[Len(messages)].options = MAIN_CATEGORIES
  /\ messages[Len(messages) - 1].text = Some(<<"Nova denuncia">>)

\* A field of the draft counts as unset when it is missing or empty (an
\* empty text, the number 0): the cases in which the fallback is taken.
UnsetName(o) == o = None \/ o[1] = ""
UnsetText(o) == o = None \/ o[1] = <<>>
UnsetNumber(o) == o = None \/ o[1] = 0

\* The Report that the defaults give for draft d.
ReportDefaults(r, d) ==
  /\ r.category = IF UnsetName(d.category) THEN OTHER_CATEGORY ELSE d.category[1]
  /\ r.severity = IF UnsetNumber(d.severity) THEN 1 ELSE d.severity[1]
  /\ r.aiAnalysis = IF UnsetText(d.aiAnalysis) THEN <<"Sem analise">> ELSE d.aiAnalysis[1]
  /\ r.description =
       IF ~UnsetText(d.description) THEN d.description[1]
       ELSE IF ~UnsetName(d.subcategory) THEN <<d.subcategory[1]>>
       ELSE <<"Sem descricao detalhada">>
  /\ r.status = "pending"
  /\ r.description # <<>>
  /\ r.aiAnalysis # <<>>

\* C32: every Report built at finalization has the draft's category or
\* 'Outro', the draft's severity or 1, the draft's analysis text or 'Sem
\* analise', the draft's description, else its sub-category, else the fixed
\* placeholder, and status 'pending'; so its description and its analysis
\* text are not empty.
C32_FinalizationDefaults ==
  [][Len(reports') = Len(reports) + 1 =>
       ReportDefaults(reports'[Len(reports')], tempReportData)]_vars

\* A coordinate is confirmed in the picker: the picker was open and is
\* closed by it, so the next confirmation needs another opening; the user's
\* confirmation and one Report at that coordinate are appended.
MapSelectionDelivered ==
  MapLocationSelect =>
    LET m == messages'[Len(messages')]
        r == reports'[Len(reports')]
    IN /\ showMapPicker /\ ~showMapPicker'
       /\ Len(messages') = Len(messages) + 1
       /\ SubSeq(messages', 1, Len(messages)) = messages
       /\ m.sender = USER
       /\ m.text = Some(<<"Local marcado no mapa.">>)
       /\ Len(reports') = Len(reports) + 1
       /\ SubSeq(reports', 1, Len(reports)) = reports
       /\ r.location = MapCoordinates
       /\ r.neighborhood = Some("Marcado no Mapa")
       /\ \E i \in 1..Len(pending') : pending'[i].k = "finalT"

\* The timer of the finalization sets the step and appends no Report.
FinalizationCompletes ==
  \A i \in 1..Len(pending) :
    (pending[i].k = "finalT" /\ pending' = RemoveAt(pending, i)) =>
      /\ currentStep' = COMPLETED
      /\ reports' = reports

\* C33: an opening of the map picker delivers at most one confirmed
\* coordinate; when coordinate q is confirmed the picker is closed, a user
\* confirmation is appended, exactly one Report with location q and the
\* label 'Marcado no Mapa' is appended, and the step becomes COMPLETED.
C33_MapSelection == [][MapSelectionDelivered /\ FinalizationCompletes]_vars

\* A Report marked on the map, its flow completed.
C33_Witness ==
  /\ currentStep = COMPLETED
  /\ ~showMapPicker
  /\ Len(reports) = 1
  /\ reports[1].location = MapCoordinates
  /\ reports[1].neighborhood = Some("Marcado no Mapa")
  /\ \E n \in 1..Len(messages) :
       messages[n].sender = USER /\ messages[n].text = Some(<<"Local marcado no mapa.">>)

\* C34: free text handled in LOCATION_INPUT_TEXT invokes extractLocation
\* once; when it returns, its confirmation text is appended as a bot
\* message and exactly one Report is appended whose location and
\* neighborhood are the ones returned (the fallback's when the call
\* failed); the step becomes COMPLETED with the finalization's timer.
C34_TextLocation ==
  [][/\ (currentStep = LOCATION_INPUT_TEXT /\ SendText) =>
          /\ Len(pending') = Len(pending) + 1
          /\ pending'[Len(pending')].k = "extract"
          /\ reports' = reports
     /\ \A i \in 1..Len(pending) :
          (pending[i].k = "extract"
             /\ pending' \in {RemoveAt(pending, i), FinalTimer(RemoveAt(pending, i))}) =>
            \E t \in CtlLocationTransports :
              LET v == extractLocationFromText(pending[i].arg, t).value
                  m == messages'[Len(messages')]
                  r == reports'[Len(reports')]
              IN /\ ~v.null
                 /\ Len(messages') = Len(messages) + 1
                 /\ m.sender = BOT
                 /\ m.text = v.obj.confirmationText
                 /\ Len(reports') = Len(reports) + 1
                 /\ SubSeq(reports', 1, Len(reports)) = reports
                 /\ v.obj.coordinates # None
                 /\ r.location = v.obj.coordinates[1]
                 /\ r.neighborhood = v.obj.neighborhood
                 /\ pending' = FinalTimer(RemoveAt(pending, i))
     /\ FinalizationCompletes]_vars

\* inferCategory yields no match for the text of pending call i.
NoMatch(i) ==
  \E t \in CtlInferTransports : inferCategoryFromText(pending[i].arg, t).value = None

\* C35: free text handled in CATEGORY_SELECTION or SUBCATEGORY_SELECTION
\* calls inferCategory; when that yields no match (also when the AI call
\* fails) a bot quick-reply prompt carrying exactly the main categories is
\* appended, the step is CATEGORY_SELECTION, no Report is appended and the
\* draft's category, sub-category, description, severity and analysis text
\* are unchanged.
C35_InferenceFailure ==
  [][/\ (currentStep \in {CATEGORY_SELECTION, SUBCATEGORY_SELECTION} /\ SendText) =>
          /\ Len(pending') = Len(pending) + 1
          /\ pending'[Len(pending')].k = "infer"
     /\ \A i \in 1..Len(pending) :
          (pending[i].k = "infer" /\ pending' = RemoveAt(pending, i)) =>
            LET m == messages'[Len(messages')]
            IN /\ NoMatch(i)
               /\ Len(messages') = Len(messages) + 1
               /\ SubSeq(messages', 1, Len(messages)) = messages
               /\ m.sender = BOT /\ m.isQuickReply
               /\ m.options = MAIN_CATEGORIES
               /\ currentStep' = CATEGORY_SELECTION
               /\ reports' = reports
               /\ tempReportData'.category = tempReportData.category
               /\ tempReportData'.subcategory = tempReportData.subcategory
               /\ tempReportData'.description = tempReportData.description
               /\ tempReportData'.severity = tempReportData.severity
               /\ tempReportData'.aiAnalysis = tempReportData.aiAnalysis]_vars

\* A text typed in SUBCATEGORY_SELECTION was not classified: the step is back
\* at CATEGORY_SELECTION and the draft still holds the category of the button.
C35_Witness ==
  /\ currentStep = CATEGORY_SELECTION
  /\ pending = <<>>
  /\ tempReportData.category = Some(STRUCTURE)
  /\ messages[Len(messages)].isQuickReply
  /\ messages[Len(messages)].options = MAIN_CATEGORIES
  /\ messages[Len(messages)].text =
       Some(<<"Nao consegui identificar a categoria automaticamente. Por favor, selecione uma das opcoes.">>)
  /\ messages[Len(messages) - 1].sender = USER
  /\ reports = <<>>

\* The places of the bot's messages in the transcript, and the k-th of them.
BotPlaces == {n \in 1..Len(messages) : messages[n].sender = BOT}
BotMessage(k) ==
  messages[CHOOSE n \in BotPlaces : Cardinality({j \in BotPlaces : j <= n}) = k]

\* The greetings the transcript may open with: the AI's text, or the canned one.
Greetings == {Some(<<"Ola, sou o EcoSalvador.">>), Some(CannedGreeting)}

\* C36: from the initial state the first bot message appended is the
\* greeting (the AI's, or the canned one when the call fails or gives no
\* text), the next bot message is a quick-reply prompt carrying the main
\* categories, the step becomes CATEGORY_SELECTION exactly when that prompt
\* is appended, and text the user sends while the step is GREETING changes
\* neither the step nor the draft's category.
C36_Greeting ==
  /\ [](/\ Cardinality(BotPlaces) >= 1 => BotMessage(1).text \in Greetings
        /\ Cardinality(BotPlaces) >= 1 => ~BotMessage(1).isQuickReply
        /\ Cardinality(BotPlaces) >= 2 =>
             BotMessage(2).isQuickReply /\ BotMessage(2).options = MAIN_CATEGORIES
        /\ currentStep = GREETING <=> Cardinality(BotPlaces) < 2)
  /\ [][/\ (currentStep = GREETING /\ currentStep' # GREETING) =>
             /\ currentStep' = CATEGORY_SELECTION
             /\ Cardinality(BotPlaces) = 1
             /\ Len(messages') = Len(messages) + 1
             /\ messages'[Len(messages')].sender = BOT
        /\ (currentStep = GREETING /\ SendText) =>
             /\ currentStep' = GREETING
             /\ tempReportData'.category = tempReportData.category]_vars

\* The user wrote during the greeting; the canned greeting and the category
\* prompt followed, and no category was taken from the text.
C36_Witness ==
  /\ Len(messages) = 3
  /\ messages[1].sender = USER
  /\ messages[2].text = Some(CannedGreeting)
  /\ messages[3].isQuickReply
  /\ messages[3].options = MAIN_CATEGORIES
  /\ currentStep = CATEGORY_SELECTION
  /\ tempReportData.category = None

\* C37: in every reachable state the draft's category, when set, and the
\* category of every Report is one of the seven ReportCategory values,
\* whichever quick-reply button shown in the transcript the user presses
\* while the step is CATEGORY_SELECTION.
C37_CategoryInEnumeration ==
  /\ tempReportData.category # None => tempReportData.category[1] \in ReportCategory
  /\ \A j \in 1..Len(reports) : reports[j].category \in ReportCategory

\* C38: every Report's severity and analysis text are the result that
\* analyzeDescription returned for that Report's description and category,
\* also when several texts are sent whose AI calls are in flight together
\* and resolve in any order.  (The AI of MatchSpec answers 4, 'analise' to a
\* description ending in 'ok' and 2, 'foto' to any other.)
C38_SeverityMatchesDescription ==
  \A j \in 1..Len(reports) :
    LET r == reports[j]
    IN r.description[Len(r.description)] = "ok" =>
         r.severity = 4 /\ r.aiAnalysis = <<"analise">>

\* C39: an image the user attached to a message of a report flow (with the
\* text that starts the inference, with the description, or with the
\* location text) is the image reference of the Report finalized for the
\* flow.  (With no event off the protocol every text is one of the three,
\* and the first Report ends the first flow.)
C39_ImageReachesReport ==
  Len(reports) >= 1 =>
    \A n \in 1..Len(messages) :
      (messages[n].sender = USER /\ messages[n].image # None
         /\ messages[n].id < reports[1].id) =>
        reports[1].imageUrl = messages[n].image

\* C40: in every reachable state, if the map picker is open the step is
\* LOCATION_INPUT_MAP, for every ordering of location-method choices,
\* pending delayed transitions and GPS callbacks.
C40_MapPickerAndStepAgree == showMapPicker => currentStep = LOCATION_INPUT_MAP

====
